---- MODULE Spec2Model ----
(***************************************************************************)
(* Device-code login client (React): the AppShell session lifecycle with   *)
(* its token refresh monitor, the LoginModal polling loop and the axios    *)
(* client with its interceptors; the legacy App component.                 *)
(*                                                                         *)
(* Every `await` of the source is a suspension point: the request is put   *)
(* into the bag `inflight` and the continuation is a separate action that  *)
(* takes it out again, so handlers interleave exactly where the JavaScript *)
(* event loop lets them.  Timers (setInterval / setTimeout) are entries    *)
(* that fire as actions of their own.                                      *)
(*                                                                         *)
(* Session and timer ids are positive integers; Null (0) is JavaScript's   *)
(* null / undefined / missing localStorage key (all falsy).                *)
(* Times are in minutes.  useCallback identities are taken as stable, so   *)
(* the mount effect of AppShell runs once per page load.                   *)
(***************************************************************************)
EXTENDS Integers, FiniteSets, Sequences, Bags, TLC

VARIABLES
  \* AppShell state (App.js 167-175)
  isAuthenticated, showLoginModal, sessionInfo, sessionId, loading,
  refreshIntervalRef, path,
  \* the navigation items the app is built with (config/navigation.js)
  navItems,
  \* browser: localStorage, live setInterval timers, pending continuations
  lsSessionId, lsAccessToken, liveTimers, nextTimer, inflight, reloadPending,
  \* LoginModal state (LoginModal.js 6-10) and the poll closures' counters
  step, userCode, modalSessionId, attempts,
  \* server: next session id handed out by /api/auth/start, and the roles
  \* it holds for the session whose info the client has (Undefined: none)
  nextSid, serverRoles,
  \* counters bounding the environment
  nTicks, nLogoutClicks,
  \* history: ticks that ended without a refresh (was one due?), sessions
  \* handleLogout was invoked for, timers whose failed refresh was handled,
  \* whether a login has succeeded, polling loops that reached an end, the
  \* setStep and callback calls that startLogin and pollAuthStatus made
  \* since the latest startLogin for attempts the modal was not closed on
  \* (emptied when the modal is closed, other than by the onLoginSuccess of
  \* the attempt itself)
  skipLog, logoutInvoked, failureLog, loginSucceeded, ended, callLog,
  \* ChatInterface: whether it is mounted, its props sessionId and roles,
  \* its state (ChatInterface.js 6-10), and for the WebSocket variant
  \* isConnected, wsRef.current and the sockets the page has created
  chatMounted, chatSessionId, chatRoles, messages, inputMessage, isLoading,
  error, isConnected, wsRef, sockets, nextSocket

shellVars == <<isAuthenticated, showLoginModal, sessionInfo, sessionId, loading,
               refreshIntervalRef, path>>
browserVars == <<lsSessionId, lsAccessToken, liveTimers, nextTimer, inflight,
                 reloadPending>>
modalVars == <<step, userCode, modalSessionId, attempts>>
envVars == <<nextSid, nTicks, nLogoutClicks>>
obsVars == <<skipLog, logoutInvoked, failureLog, loginSucceeded, ended, callLog>>
chatVars == <<chatMounted, chatSessionId, chatRoles, messages, inputMessage,
              isLoading, error, isConnected, wsRef, sockets, nextSocket>>
vars == <<shellVars, browserVars, modalVars, envVars, obsVars, navItems, serverRoles,
          chatVars>>

(***************************************************************************)
(* Bounds of the model.                                                    *)
(***************************************************************************)
MaxSessions == 2      \* session ids the server hands out
MaxTicks == 2         \* firings of refresh interval timers
MaxLogoutClicks == 1  \* clicks on the header's Sign Out button
MaxPending == 1       \* "pending" answers of the server to one polling loop
MaxClock == 1         \* latest reading of the clock, in minutes

Null == 0
Sids == 1..MaxSessions

(***************************************************************************)
(* Program constants.                                                      *)
(***************************************************************************)
bufferMinutes == 5
maxAttempts == 150

\* the value of the roles key of a session info: an array of role names,
\* null, or undefined when the key is missing (and for sessionInfo?.roles
\* of a null sessionInfo)
Undefined == [t |-> "undefined", v |-> {}]
NullRoles == [t |-> "null", v |-> {}]
Array(elems) == [t |-> "array", v |-> elems]

\* sessionInfo null.  exp is token_expires_at in minutes, Null when missing
NoInfo == [sid |-> Null, roles |-> Undefined, exp |-> Null]
RoleSets == {{}, {"user"}, {"admin"}}
RoleNames == {"user", "admin", "guest"}
RolesValues == {Undefined, NullRoles} \cup {Array(r) : r \in SUBSET RoleNames}

NAVIGATION_ITEMS ==
  << [path |-> "/", roles |-> {"user", "admin"}, requiresAuth |-> TRUE],
     [path |-> "/docs", roles |-> {"user", "admin"}, requiresAuth |-> TRUE],
     [path |-> "/chat", roles |-> {"admin"}, requiresAuth |-> TRUE],
     [path |-> "/scenario/generator", roles |-> {"admin"}, requiresAuth |-> TRUE],
     [path |-> "/scenario/library", roles |-> {"admin"}, requiresAuth |-> TRUE],
     [path |-> "/dashboard", roles |-> {"admin"}, requiresAuth |-> TRUE],
     [path |-> "/glossary", roles |-> {"user", "admin"}, requiresAuth |-> TRUE],
     [path |-> "/task", roles |-> {"admin"}, requiresAuth |-> TRUE],
     [path |-> "/one-off-feature", roles |-> {"admin"}, requiresAuth |-> TRUE],
     [path |-> "/feedback", roles |-> {"user", "admin"}, requiresAuth |-> TRUE] >>

UNAUTHORIZED_ROUTE == "/unauthorized"

\* item lists other than NAVIGATION_ITEMS: two items with every role
\* requirement over user and admin, the empty one included, with and
\* without requiresAuth
ItemLists ==
  {NAVIGATION_ITEMS} \cup
  { << [path |-> "/", roles |-> r1, requiresAuth |-> a1],
       [path |-> "/chat", roles |-> r2, requiresAuth |-> a2] >> :
      r1 \in SUBSET {"user", "admin"}, r2 \in SUBSET {"user", "admin"},
      a1 \in BOOLEAN, a2 \in BOOLEAN }

\* the locations a user may ask for
Paths ==
  {NAVIGATION_ITEMS[i].path : i \in 1..Len(NAVIGATION_ITEMS)}
    \cup {"/logged-out", UNAUTHORIZED_ROUTE}

\* the error state of ChatInterface when it holds null
NoError == "null"

\* no ChatInterface is mounted: the page shows something else
ChatUnmounted ==
  /\ chatMounted = FALSE
  /\ chatSessionId = Null
  /\ chatRoles = {}
  /\ messages = <<>>
  /\ inputMessage = ""
  /\ isLoading = FALSE
  /\ error = NoError
  /\ isConnected = FALSE
  /\ wsRef = Null
  /\ sockets = {}
  /\ nextSocket = 1

(***************************************************************************)
(* Continuations waiting in the event loop.  k is the awaited call or the  *)
(* timer and sid the session id it was given.  timer is the interval timer *)
(* whose tick it belongs to (for a logout request: the tick whose failed   *)
(* refresh called handleLogout); xsid and tok the X-Session-ID and bearer  *)
(* credential the request interceptor put on the request.  Two fields are  *)
(* notes: stale (the modal was closed while this login attempt was under   *)
(* way) and due (a refresh was due by the expiry rule when this refresh    *)
(* was issued).                                                            *)
(***************************************************************************)
Task(k, sid) ==
  [k |-> k, sid |-> sid, timer |-> Null, xsid |-> Null, tok |-> Null,
   stale |-> FALSE, due |-> FALSE]

One(t) == SetToBag({t})

Tasks(k) == {t \in BagToSet(inflight) : t.k = k}

ProtectedKinds == {"init.info", "login.info", "tick.check", "tick.refresh", "logout"}
LoopKinds == {"status", "pollTimer", "complete"}
AttemptKinds == LoopKinds \cup {"startAuth"}

\* the session ids with a polling loop under way
LiveLoops(bag) == {t.sid : t \in {r \in BagToSet(bag) : r.k \in LoopKinds}}

\* the continuations of a bag, those of login attempts noted as stale
MarkStale(bag) ==
  LET Mark(t) == IF t.k \in AttemptKinds THEN [t EXCEPT !.stale = TRUE] ELSE t
      D == BagToSet(bag)
      Copies(r) == IF r \in D THEN bag[r] ELSE 0
  IN [r \in {Mark(t) : t \in D} |->
        IF r.k \in AttemptKinds
        THEN Copies(r) + Copies([r EXCEPT !.stale = FALSE])
        ELSE Copies(r)]

(***************************************************************************)
(* utils/api.js                                                            *)
(***************************************************************************)

\* request interceptor: the headers put on a request from localStorage
RequestHeaders(storedSessionId, storedAccessToken) ==
  [xSessionId |-> storedSessionId, bearer |-> storedAccessToken]

\* a protected request as it leaves the client
Request(k, sid, storedSessionId, storedAccessToken) ==
  LET h == RequestHeaders(storedSessionId, storedAccessToken)
  IN [Task(k, sid) EXCEPT !.xsid = h.xSessionId, !.tok = h.bearer]

\* the outcomes of a request: a response, a failure other than a 401, a 401
Outcomes == {"ok", "fail", "401"}

\* a faulty interceptor that leaves localStorage alone on a 401
StoredAfterKeeps(outcome, stored) == stored

\* response interceptor: a 401 clears localStorage and reloads the page;
\* any other outcome leaves them alone
StoredAfter(outcome, stored) == IF outcome = "401" THEN Null ELSE stored

ReloadAfter(outcome, pending) == (outcome = "401") \/ pending

\* new Date(s) of a string that is no date is an Invalid Date, and every
\* comparison with one is false
InvalidDate == 0 - 1
DateGe(a, b) == a # InvalidDate /\ b # InvalidDate /\ a >= b

\* a faulty check that refreshes only after the buffer has been entered
CheckTokenExpiryExclusive(info, hasExpiry, expiryTime, now) ==
  IF info = NoInfo \/ ~hasExpiry
  THEN [t |-> "object", needsRefresh |-> TRUE, sessionInfo |-> info]
  ELSE [t |-> "object", needsRefresh |-> (now + bufferMinutes > expiryTime),
        sessionInfo |-> info]

\* checkTokenExpiry: the object it resolves to.  info is NoInfo when
\* getSessionInfo gave null; hasExpiry tells whether token_expires_at is set.
CheckTokenExpiry(info, hasExpiry, expiryTime, now) ==
  IF info = NoInfo \/ ~hasExpiry
  THEN [t |-> "object", needsRefresh |-> TRUE, sessionInfo |-> info]
  ELSE [t |-> "object", needsRefresh |-> DateGe(now + bufferMinutes, expiryTime),
        sessionInfo |-> info]

(***************************************************************************)
(* App.js, AppShell                                                        *)
(***************************************************************************)

\* JavaScript truthiness of a value tagged with its typeof: a boolean is its
\* own value, an object is always truthy
Truthy(v) == IF v.t = "boolean" THEN v.v ELSE v.t = "object"

\* the test `if (needsRefresh)` of the tick, needsRefresh being the value
\* checkTokenExpiry resolved to
NeedsRefresh(result) == Truthy(result)

StopTokenRefreshMonitor(live, ref) ==
  IF ref # Null
  THEN [live |-> {t \in live : t.id # ref}, ref |-> Null]
  ELSE [live |-> live, ref |-> ref]

\* a faulty start that leaves the running interval alone
StartWithoutStop(live, ref, next, activeSessionId) ==
  IF activeSessionId = Null
  THEN [live |-> live, ref |-> ref, next |-> next]
  ELSE [live |-> live \cup {[id |-> next, sid |-> activeSessionId]},
        ref |-> next, next |-> next + 1]

StartTokenRefreshMonitor(live, ref, next, activeSessionId) ==
  IF activeSessionId = Null
  THEN [live |-> live, ref |-> ref, next |-> next]
  ELSE LET s == StopTokenRefreshMonitor(live, ref)
       IN [live |-> s.live \cup {[id |-> next, sid |-> activeSessionId]},
           ref |-> next, next |-> next + 1]

\* a faulty default that gives a user without roles the role user
UserRolesDefaultUser(info) ==
  IF info.roles.t = "array" /\ info.roles.v # {} THEN info.roles.v ELSE {"user"}

\* sessionInfo?.roles || []
UserRoles(info) == IF info.roles.t = "array" THEN info.roles.v ELSE {}

\* a faulty filter that gives an authenticated user every item
NavItemsIgnoringRoles(items, auth, roles) == IF ~auth THEN <<>> ELSE items

\* a faulty filter that never looks at isAuthenticated
NavItemsWithoutAuthCheck(items, auth, roles) ==
  LET Allowed(item) ==
        IF item.roles = {} THEN TRUE
        ELSE \E role \in roles : role \in item.roles
  IN SelectSeq(items, Allowed)

\* the filter of availableNavItems over a list of items; an item's roles
\* are {} when it has no roles or an empty list
NavItemsFor(items, auth, roles) ==
  LET Allowed(item) ==
        IF item.requiresAuth /\ ~auth THEN FALSE
        ELSE IF item.roles = {} THEN TRUE
        ELSE \E role \in roles : role \in item.roles
  IN IF ~auth THEN <<>> ELSE SelectSeq(items, Allowed)

AvailableNavItems(auth, roles) == NavItemsFor(navItems, auth, roles)

\* the routes of a render (App.js 332-387): none while loading; the logged
\* out page when unauthenticated; else one page per available item and the
\* unauthorized page
Routes(ld, auth, roles) ==
  LET av == AvailableNavItems(auth, roles)
  IN IF ld THEN {}
     ELSE IF ~auth
     THEN {[path |-> "/", page |-> "LoggedOutPage"],
           [path |-> "/logged-out", page |-> "LoggedOutPage"]}
     ELSE {[path |-> av[i].path, page |-> "PageComponent"] : i \in 1..Len(av)}
            \cup {[path |-> UNAUTHORIZED_ROUTE, page |-> "UnauthorizedPage"]}

\* a faulty effect that does not look at isAuthenticated
UnauthRedirectIgnoresAuth(p, ld, auth) ==
  IF ~ld /\ p \notin {"/", "/logged-out"} THEN "/logged-out" ELSE p

\* a faulty effect that leaves a logged out user where the user is
UnauthRedirectStays(p, ld, auth) == p

\* effect of App.js 289-297
UnauthRedirect(p, ld, auth) ==
  IF ~ld /\ ~auth /\ p \notin {"/", "/logged-out"} THEN "/logged-out" ELSE p

\* a faulty effect that sends a user without the roles for a page nowhere
RoleRedirectStays(p, auth, roles) == p

\* effect of App.js 316-330
RoleRedirect(p, auth, roles) ==
  LET av == AvailableNavItems(auth, roles)
  IN IF ~auth THEN p
     ELSE IF Len(av) = 0 THEN UNAUTHORIZED_ROUTE
     ELSE IF \E i \in 1..Len(av) : av[i].path = p THEN p
     ELSE av[1].path

\* the path after both effects have run for a render
Settle(p, ld, auth, roles) == RoleRedirect(UnauthRedirect(p, ld, auth), auth, roles)

\* setShowLoginModal(open), after the handler set the modal's state to
\* stepNow, codeNow, msidNow; with the LoginModal effect on [isOpen]
\* (LoginModal.js 12-21), which resets the modal when it is closed.  bag is
\* what is in flight after the handler.
SetShowLoginModal(open, bag, stepNow, codeNow, msidNow) ==
  /\ showLoginModal' = open
  /\ IF showLoginModal /\ ~open
     THEN /\ step' = "idle"
          /\ userCode' = Null
          /\ modalSessionId' = Null
          /\ inflight' = MarkStale(bag)
     ELSE /\ step' = stepNow
          /\ userCode' = codeNow
          /\ modalSessionId' = msidNow
          /\ inflight' = bag

\* two faulty variants of the finally block: one without
\* setIsAuthenticated(false), one without the removeItem
LogoutFinallyStaysAuthenticated(bag, outcome, timer) ==
  /\ LET s == StopTokenRefreshMonitor(liveTimers, refreshIntervalRef)
     IN liveTimers' = s.live /\ refreshIntervalRef' = s.ref
  /\ lsSessionId' = Null
  /\ lsAccessToken' = StoredAfter(outcome, lsAccessToken)
  /\ reloadPending' = ReloadAfter(outcome, reloadPending)
  /\ sessionId' = Null
  /\ isAuthenticated' = isAuthenticated
  /\ sessionInfo' = NoInfo
  /\ serverRoles' = Undefined
  /\ SetShowLoginModal(FALSE, bag, step, userCode, modalSessionId)
  /\ path' = Settle("/logged-out", loading, FALSE, {})
  /\ failureLog' = IF timer # Null THEN Append(failureLog, timer) ELSE failureLog
  /\ callLog' = IF showLoginModal THEN <<>> ELSE callLog
  /\ UNCHANGED <<navItems, chatVars, loading, nextTimer>>

LogoutFinallyKeepsStoredId(bag, outcome, timer) ==
  /\ LET s == StopTokenRefreshMonitor(liveTimers, refreshIntervalRef)
     IN liveTimers' = s.live /\ refreshIntervalRef' = s.ref
  /\ lsSessionId' = StoredAfter(outcome, lsSessionId)
  /\ lsAccessToken' = StoredAfter(outcome, lsAccessToken)
  /\ reloadPending' = ReloadAfter(outcome, reloadPending)
  /\ sessionId' = Null
  /\ isAuthenticated' = FALSE
  /\ sessionInfo' = NoInfo
  /\ serverRoles' = Undefined
  /\ SetShowLoginModal(FALSE, bag, step, userCode, modalSessionId)
  /\ path' = Settle("/logged-out", loading, FALSE, {})
  /\ failureLog' = IF timer # Null THEN Append(failureLog, timer) ELSE failureLog
  /\ callLog' = IF showLoginModal THEN <<>> ELSE callLog
  /\ UNCHANGED <<navItems, chatVars, loading, nextTimer>>

\* the finally block of handleLogout (App.js 192-200).  bag is what is in
\* flight without the continuation that runs it, outcome the outcome of the
\* request that led here, timer the interval timer of the tick that called
\* handleLogout (Null otherwise).
LogoutFinally(bag, outcome, timer) ==
  /\ LET s == StopTokenRefreshMonitor(liveTimers, refreshIntervalRef)
     IN liveTimers' = s.live /\ refreshIntervalRef' = s.ref
  /\ lsSessionId' = Null
  /\ lsAccessToken' = StoredAfter(outcome, lsAccessToken)
  /\ reloadPending' = ReloadAfter(outcome, reloadPending)
  /\ sessionId' = Null
  /\ isAuthenticated' = FALSE
  /\ sessionInfo' = NoInfo
  /\ serverRoles' = Undefined
  /\ SetShowLoginModal(FALSE, bag, step, userCode, modalSessionId)
  /\ path' = Settle("/logged-out", loading, FALSE, {})
  /\ failureLog' = IF timer # Null THEN Append(failureLog, timer) ELSE failureLog
  /\ callLog' = IF showLoginModal THEN <<>> ELSE callLog
  /\ UNCHANGED <<navItems, chatVars, loading, nextTimer>>

\* handleLogout up to its await (App.js 184-189); bag is what is in flight
\* without the continuation that calls it, outcome the outcome of the
\* request that failed before the call ("ok" when the user clicked).
HandleLogout(bag, outcome, timer) ==
  LET activeSessionId == StoredAfter(outcome, lsSessionId)
      request == Request("logout", activeSessionId, lsSessionId, lsAccessToken)
  IN IF activeSessionId # Null
     THEN /\ inflight' = bag (+) One([request EXCEPT !.timer = timer])
          /\ logoutInvoked' = logoutInvoked \cup {activeSessionId}
          /\ UNCHANGED <<navItems, chatVars, serverRoles, shellVars, lsSessionId, lsAccessToken, liveTimers, nextTimer,
                         reloadPending, modalVars, failureLog, callLog>>
     ELSE /\ LogoutFinally(bag, outcome, timer)
          /\ UNCHANGED <<attempts, logoutInvoked>>

(***************************************************************************)
(* The refresh monitor (App.js 203-225)                                    *)
(***************************************************************************)
Clock == 0..MaxClock

\* expiry times around the edge of the buffer
ExpiryTimes(now) == (now + bufferMinutes - 1)..(now + bufferMinutes + 1)

\* token_expires_at of the session info getSessionInfo resolves with
ExpiryValues == {Null} \cup ExpiryTimes(MaxClock)
InfoExpiry == MaxClock + bufferMinutes

\* the interval fires: the callback starts and awaits checkTokenExpiry
TimerFire(tm) ==
  /\ tm \in liveTimers
  /\ nTicks < MaxTicks
  /\ nTicks' = nTicks + 1
  /\ inflight' = inflight (+)
       One([Request("tick.check", tm.sid, lsSessionId, lsAccessToken)
              EXCEPT !.timer = tm.id])
  /\ UNCHANGED <<navItems, chatVars, serverRoles, shellVars, lsSessionId, lsAccessToken, liveTimers, nextTimer,
                 reloadPending, modalVars, nextSid, nLogoutClicks, obsVars>>

\* checkTokenExpiry resolves (it never rejects); the callback tests the
\* value and either awaits refreshToken or ends
TickCheck(t, outcome, info, hasExpiry, expiryTime, now) ==
  LET result == CheckTokenExpiry(info, hasExpiry, expiryTime, now)
      stored == StoredAfter(outcome, lsSessionId)
      token == StoredAfter(outcome, lsAccessToken)
  IN /\ lsSessionId' = stored
     /\ lsAccessToken' = token
     /\ reloadPending' = ReloadAfter(outcome, reloadPending)
     /\ IF NeedsRefresh(result)
        THEN /\ inflight' = (inflight (-) One(t)) (+)
                  One([Request("tick.refresh", t.sid, stored, token)
                         EXCEPT !.timer = t.timer, !.due = result.needsRefresh])
             /\ UNCHANGED skipLog
        ELSE /\ inflight' = inflight (-) One(t)
             /\ skipLog' = skipLog \cup {result.needsRefresh}
     /\ UNCHANGED <<navItems, chatVars, serverRoles, shellVars, liveTimers, nextTimer, modalVars, envVars,
                    logoutInvoked, failureLog, loginSucceeded, ended, callLog>>

\* the session info carries token_expires_at
TickCheckExpiry(t) ==
  /\ t \in Tasks("tick.check")
  /\ \E now \in Clock : \E expiryTime \in ExpiryTimes(now) :
       TickCheck(t, "ok", [sid |-> t.sid, roles |-> Array({}), exp |-> expiryTime],
                 TRUE, expiryTime, now)

\* the session info carries no token_expires_at
TickCheckNoExpiry(t) ==
  /\ t \in Tasks("tick.check")
  /\ TickCheck(t, "ok", [sid |-> t.sid, roles |-> Array({}), exp |-> Null],
               FALSE, 0, 0)

\* getSessionInfo gave null: the request failed
TickCheckNoInfo(t, outcome) ==
  /\ t \in Tasks("tick.check")
  /\ outcome \in {"fail", "401"}
  /\ TickCheck(t, outcome, NoInfo, FALSE, 0, 0)

\* refreshToken resolves, the server holding roles for the session from
\* now on: the callback logs and ends
TickRefreshOk(t, roles) ==
  /\ t \in Tasks("tick.refresh")
  /\ roles \in RolesValues
  /\ inflight' = inflight (-) One(t)
  /\ serverRoles' = IF t.sid = sessionInfo.sid THEN roles ELSE serverRoles
  /\ UNCHANGED <<navItems, chatVars, shellVars, lsSessionId, lsAccessToken, liveTimers, nextTimer,
                 reloadPending, modalVars, envVars, obsVars>>

\* refreshToken rejects: the catch block awaits handleLogout
TickRefreshFail(t, outcome) ==
  /\ t \in Tasks("tick.refresh")
  /\ outcome \in {"fail", "401"}
  /\ HandleLogout(inflight (-) One(t), outcome, t.timer)
  /\ UNCHANGED <<envVars, skipLog, loginSucceeded, ended>>

(***************************************************************************)
(* Logout (App.js 184-201)                                                 *)
(***************************************************************************)

\* the Sign Out button of the header, shown while authenticated
UserLogout ==
  /\ isAuthenticated
  /\ ~loading
  /\ nLogoutClicks < MaxLogoutClicks
  /\ nLogoutClicks' = nLogoutClicks + 1
  /\ HandleLogout(inflight, "ok", Null)
  /\ UNCHANGED <<nextSid, nTicks, skipLog, loginSucceeded, ended>>

\* authAPI.logout resolves or rejects: the rejection is logged, and the
\* finally block runs either way
LogoutResponse(t, outcome) ==
  /\ t \in Tasks("logout")
  /\ outcome \in Outcomes
  /\ LogoutFinally(inflight (-) One(t), outcome, t.timer)
  /\ UNCHANGED <<attempts, envVars, skipLog, logoutInvoked, loginSucceeded, ended>>

(***************************************************************************)
(* Session initialisation and login completion (App.js 227-282)            *)
(***************************************************************************)

\* getSessionInfo of initializeSession resolves with the session's info
InitInfoOk(t, roles, exp) ==
  /\ t \in Tasks("init.info")
  /\ roles \in RolesValues
  /\ exp \in ExpiryValues
  /\ inflight' = inflight (-) One(t)
  /\ sessionInfo' = [sid |-> t.sid, roles |-> roles, exp |-> exp]
  /\ serverRoles' = roles
  /\ sessionId' = t.sid
  /\ isAuthenticated' = TRUE
  /\ LET m == StartTokenRefreshMonitor(liveTimers, refreshIntervalRef, nextTimer, t.sid)
     IN liveTimers' = m.live /\ refreshIntervalRef' = m.ref /\ nextTimer' = m.next
  /\ loading' = FALSE
  /\ path' = Settle(path, FALSE, TRUE,
                    UserRoles([sid |-> t.sid, roles |-> roles, exp |-> exp]))
  /\ UNCHANGED <<navItems, chatVars, showLoginModal, lsSessionId, lsAccessToken, reloadPending,
                 modalVars, envVars, obsVars>>

\* a faulty initializeSession that keeps the stored id of a session whose
\* info it did not get
InitInfoNullKeepsStoredId(t, outcome) ==
  /\ t \in Tasks("init.info")
  /\ outcome \in Outcomes
  /\ inflight' = inflight (-) One(t)
  /\ lsSessionId' = StoredAfter(outcome, lsSessionId)
  /\ lsAccessToken' = StoredAfter(outcome, lsAccessToken)
  /\ reloadPending' = ReloadAfter(outcome, reloadPending)
  /\ loading' = FALSE
  /\ path' = Settle(path, FALSE, isAuthenticated, UserRoles(sessionInfo))
  /\ UNCHANGED <<navItems, chatVars, serverRoles, isAuthenticated, showLoginModal, sessionInfo, sessionId,
                 refreshIntervalRef, liveTimers, nextTimer, modalVars, envVars,
                 obsVars>>

\* getSessionInfo of initializeSession resolves with null (it catches every
\* failure of the request)
InitInfoNull(t, outcome) ==
  /\ t \in Tasks("init.info")
  /\ outcome \in Outcomes
  /\ inflight' = inflight (-) One(t)
  /\ lsSessionId' = Null
  /\ lsAccessToken' = StoredAfter(outcome, lsAccessToken)
  /\ reloadPending' = ReloadAfter(outcome, reloadPending)
  /\ sessionId' = Null
  /\ loading' = FALSE
  /\ path' = Settle(path, FALSE, isAuthenticated, UserRoles(sessionInfo))
  /\ UNCHANGED <<navItems, chatVars, serverRoles, isAuthenticated, showLoginModal, sessionInfo, refreshIntervalRef,
                 liveTimers, nextTimer, modalVars, envVars, obsVars>>

\* handleLoginSuccess up to its await (App.js 262-272); bag is what is in
\* flight without the continuation that calls it, stepNow the step the
\* modal set before calling onLoginSuccess
HandleLoginSuccess(bag, stepNow) ==
  LET storedSession == lsSessionId
      request == Request("login.info", storedSession, lsSessionId, lsAccessToken)
  IN /\ SetShowLoginModal(FALSE,
                          IF storedSession # Null THEN bag (+) One(request) ELSE bag,
                          stepNow, userCode, modalSessionId)
     /\ loginSucceeded' = TRUE

\* getSessionInfo of handleLoginSuccess resolves with the session's info
LoginInfoOk(t, roles, exp) ==
  /\ t \in Tasks("login.info")
  /\ roles \in RolesValues
  /\ exp \in ExpiryValues
  /\ inflight' = inflight (-) One(t)
  /\ sessionInfo' = [sid |-> t.sid, roles |-> roles, exp |-> exp]
  /\ serverRoles' = roles
  /\ sessionId' = t.sid
  /\ isAuthenticated' = TRUE
  /\ LET m == StartTokenRefreshMonitor(liveTimers, refreshIntervalRef, nextTimer, t.sid)
     IN liveTimers' = m.live /\ refreshIntervalRef' = m.ref /\ nextTimer' = m.next
  /\ path' = Settle(path, loading, TRUE,
                    UserRoles([sid |-> t.sid, roles |-> roles, exp |-> exp]))
  /\ UNCHANGED <<navItems, chatVars, showLoginModal, loading, lsSessionId, lsAccessToken, reloadPending,
                 modalVars, envVars, obsVars>>

\* getSessionInfo of handleLoginSuccess resolves with null: nothing is set
LoginInfoNull(t, outcome) ==
  /\ t \in Tasks("login.info")
  /\ outcome \in Outcomes
  /\ inflight' = inflight (-) One(t)
  /\ lsSessionId' = StoredAfter(outcome, lsSessionId)
  /\ lsAccessToken' = StoredAfter(outcome, lsAccessToken)
  /\ reloadPending' = ReloadAfter(outcome, reloadPending)
  /\ UNCHANGED <<navItems, chatVars, serverRoles, shellVars, liveTimers, nextTimer, modalVars, envVars, obsVars>>

(***************************************************************************)
(* The user and the page                                                   *)
(***************************************************************************)

\* Sign In of the header or of the logged-out page
OpenModal ==
  /\ ~loading
  /\ ~isAuthenticated
  /\ ~showLoginModal
  /\ showLoginModal' = TRUE
  /\ UNCHANGED <<navItems, chatVars, serverRoles, isAuthenticated, sessionInfo, sessionId, loading, refreshIntervalRef,
                 path, browserVars, modalVars, envVars, obsVars>>

\* the X button of the modal
CloseModal ==
  /\ showLoginModal
  /\ SetShowLoginModal(FALSE, inflight, step, userCode, modalSessionId)
  /\ callLog' = <<>>
  /\ UNCHANGED <<navItems, chatVars, serverRoles, isAuthenticated, sessionInfo, sessionId, loading, refreshIntervalRef,
                 path, lsSessionId, lsAccessToken, liveTimers, nextTimer,
                 reloadPending, attempts, envVars, skipLog, logoutInvoked, failureLog,
                 loginSucceeded, ended>>

\* window.location.reload() of the response interceptor takes effect: every
\* timer and continuation of the old page is gone, localStorage and the
\* hash path stay, AppShell mounts and initializeSession runs up to its
\* await (App.js 227-236)
InterceptorReload ==
  /\ reloadPending
  /\ isAuthenticated' = FALSE
  /\ showLoginModal' = FALSE
  /\ sessionInfo' = NoInfo
  /\ serverRoles' = Undefined
  /\ sessionId' = lsSessionId
  /\ loading' = (lsSessionId # Null)
  /\ refreshIntervalRef' = Null
  /\ liveTimers' = {}
  /\ inflight' = IF lsSessionId # Null
                 THEN One(Request("init.info", lsSessionId, lsSessionId, lsAccessToken))
                 ELSE EmptyBag
  /\ reloadPending' = FALSE
  /\ step' = "idle"
  /\ userCode' = Null
  /\ modalSessionId' = Null
  /\ attempts' = [s \in Sids |-> 0]
  /\ callLog' = <<>>
  /\ path' = Settle(path, lsSessionId # Null, FALSE, {})
  /\ chatMounted' = FALSE
  /\ chatSessionId' = Null
  /\ chatRoles' = {}
  /\ messages' = <<>>
  /\ inputMessage' = ""
  /\ isLoading' = FALSE
  /\ error' = NoError
  /\ isConnected' = FALSE
  /\ wsRef' = Null
  /\ sockets' = {}
  /\ nextSocket' = 1
  /\ UNCHANGED <<navItems, lsSessionId, lsAccessToken, nextTimer, envVars, skipLog,
                 logoutInvoked, failureLog, loginSucceeded, ended>>

(***************************************************************************)
(* LoginModal.js                                                           *)
(***************************************************************************)

\* a faulty poll that reports the server's timeout or error and polls on
PollStepPollsOnExpired(answer) ==
  CASE answer = "authorized" ->
         [next |-> "complete", error |-> FALSE, calls |-> <<"completeAuth">>]
    [] answer = "denied" ->
         [next |-> "stop", error |-> TRUE,
          calls |-> <<"setStep:error", "onError:unauthorized">>]
    [] answer \in {"error", "timeout"} ->
         [next |-> "timer", error |-> FALSE,
          calls |-> <<"setStep:error", "onError:status">>]
    [] answer = "pending" ->
         [next |-> "timer", error |-> FALSE, calls |-> <<>>]
    [] answer \in {"fail", "401"} ->
         [next |-> "stop", error |-> TRUE,
          calls |-> <<"setStep:error", "onError:request">>]

\* a faulty poll that reports a denied login and completes it all the same
PollStepCompletesDenied(answer) ==
  CASE answer = "authorized" ->
         [next |-> "complete", error |-> FALSE, calls |-> <<"completeAuth">>]
    [] answer = "denied" ->
         [next |-> "complete", error |-> TRUE,
          calls |-> <<"setStep:error", "onError:unauthorized">>]
    [] answer \in {"error", "timeout"} ->
         [next |-> "stop", error |-> TRUE,
          calls |-> <<"setStep:error", "onError:status">>]
    [] answer = "pending" ->
         [next |-> "timer", error |-> FALSE, calls |-> <<>>]
    [] answer \in {"fail", "401"} ->
         [next |-> "stop", error |-> TRUE,
          calls |-> <<"setStep:error", "onError:request">>]

\* a faulty poll that reports a denied login and polls on
PollStepPollsOn(answer) ==
  CASE answer = "authorized" ->
         [next |-> "complete", error |-> FALSE, calls |-> <<"completeAuth">>]
    [] answer = "denied" ->
         [next |-> "timer", error |-> TRUE,
          calls |-> <<"setStep:error", "onError:unauthorized">>]
    [] answer \in {"error", "timeout"} ->
         [next |-> "stop", error |-> TRUE,
          calls |-> <<"setStep:error", "onError:status">>]
    [] answer = "pending" ->
         [next |-> "timer", error |-> FALSE, calls |-> <<>>]
    [] answer \in {"fail", "401"} ->
         [next |-> "stop", error |-> TRUE,
          calls |-> <<"setStep:error", "onError:request">>]

\* what poll does with the answer to checkAuthStatus (LoginModal.js 56-90):
\* authorized is completed + authorized, denied completed + not authorized,
\* pending any other status, fail a rejected request; calls are the setStep
\* and callback calls it makes, in order
PollStep(answer) ==
  CASE answer = "authorized" ->
         [next |-> "complete", error |-> FALSE, calls |-> <<"completeAuth">>]
    [] answer = "denied" ->
         [next |-> "stop", error |-> TRUE,
          calls |-> <<"setStep:error", "onError:unauthorized">>]
    [] answer \in {"error", "timeout"} ->
         [next |-> "stop", error |-> TRUE,
          calls |-> <<"setStep:error", "onError:status">>]
    [] answer = "pending" ->
         [next |-> "timer", error |-> FALSE, calls |-> <<>>]
    [] answer \in {"fail", "401"} ->
         [next |-> "stop", error |-> TRUE,
          calls |-> <<"setStep:error", "onError:request">>]

Answers == {"authorized", "denied", "error", "timeout", "pending", "fail", "401"}

\* a continuation of the login attempt for session sid
Attempt(k, sid, stale) == [Task(k, sid) EXCEPT !.stale = stale]

\* startAuth requests that have not been answered
PendingStarts ==
  CopiesIn(Attempt("startAuth", Null, FALSE), inflight)
    + CopiesIn(Attempt("startAuth", Null, TRUE), inflight)

\* the call log after an attempt made the calls
Logged(stale, calls) == IF stale THEN callLog ELSE callLog \o calls

\* a faulty poll that has no cutoff
PollWithoutCutoff(bag, sid, att, stepNow, stale, logNow) ==
  /\ inflight' = bag (+) One(Attempt("status", sid, stale))
  /\ step' = stepNow
  /\ attempts' = [attempts EXCEPT ![sid] = att]
  /\ callLog' = logNow
  /\ UNCHANGED ended

\* one call of poll up to its await (LoginModal.js 48-56); bag is what is in
\* flight without the caller, att the closure's attempts, stepNow the step
\* set and logNow the calls made before the call
Poll(bag, sid, att, stepNow, stale, logNow) ==
  IF att >= maxAttempts
  THEN /\ inflight' = bag
       /\ step' = "error"
       /\ attempts' = [attempts EXCEPT ![sid] = 0]
       /\ ended' = ended \cup {sid}
       /\ callLog' = IF stale THEN logNow
                   ELSE logNow \o <<"setStep:error", "onError:timeout">>
  ELSE /\ inflight' = bag (+) One(Attempt("status", sid, stale))
       /\ step' = stepNow
       /\ attempts' = [attempts EXCEPT ![sid] = att]
       /\ callLog' = logNow
       /\ UNCHANGED ended

\* the Sign in button, rendered at step idle only (LoginModal.js 23-26,
\* 124-136)
StartLogin ==
  /\ showLoginModal
  /\ step = "idle"
  /\ nextSid + PendingStarts <= MaxSessions
  /\ step' = "loading"
  /\ callLog' = <<"setStep:loading">>
  /\ inflight' = inflight (+) One(Attempt("startAuth", Null, FALSE))
  /\ UNCHANGED <<navItems, chatVars, serverRoles, shellVars, lsSessionId, lsAccessToken, liveTimers, nextTimer,
                 reloadPending, userCode, modalSessionId, attempts, envVars, skipLog,
                 logoutInvoked, failureLog, loginSucceeded, ended>>

\* startAuth resolves with a new session: the code is shown, the id stored
\* and polling starts (LoginModal.js 27-36, 43-47, 93)
StartAuthOk(t) ==
  LET sid == nextSid
  IN /\ t \in Tasks("startAuth")
     /\ nextSid' = nextSid + 1
     /\ userCode' = sid
     /\ modalSessionId' = sid
     /\ lsSessionId' = sid
     /\ Poll(inflight (-) One(t), sid, 0, "polling", t.stale,
             Logged(t.stale, <<"setStep:code", "setStep:polling">>))
     /\ UNCHANGED <<navItems, chatVars, serverRoles, shellVars, lsAccessToken, liveTimers, nextTimer, reloadPending,
                    nTicks, nLogoutClicks, skipLog, logoutInvoked, failureLog,
                    loginSucceeded>>

\* startAuth rejects (LoginModal.js 37-40)
StartAuthFail(t, outcome) ==
  /\ t \in Tasks("startAuth")
  /\ outcome \in {"fail", "401"}
  /\ inflight' = inflight (-) One(t)
  /\ step' = "error"
  /\ lsSessionId' = StoredAfter(outcome, lsSessionId)
  /\ lsAccessToken' = StoredAfter(outcome, lsAccessToken)
  /\ reloadPending' = ReloadAfter(outcome, reloadPending)
  /\ callLog' = Logged(t.stale, <<"setStep:error", "onError:start">>)
  /\ UNCHANGED <<navItems, chatVars, serverRoles, shellVars, liveTimers, nextTimer, userCode, modalSessionId, attempts,
                 envVars, skipLog, logoutInvoked, failureLog, loginSucceeded, ended>>

\* checkAuthStatus resolves or rejects (LoginModal.js 56-90)
StatusResponse(t, answer) ==
  LET r == PollStep(answer)
      bag == inflight (-) One(t)
      outcome == IF answer = "401" THEN "401" ELSE "ok"
  IN /\ t \in Tasks("status")
     /\ answer \in Answers
     /\ inflight' = CASE r.next = "complete" ->
                           bag (+) One(Attempt("complete", t.sid, t.stale))
                      [] r.next = "timer" ->
                           bag (+) One(Attempt("pollTimer", t.sid, t.stale))
                      [] r.next = "stop" -> bag
     /\ attempts' = CASE r.next = "complete" -> attempts
                      [] r.next = "timer" -> [attempts EXCEPT ![t.sid] = @ + 1]
                      [] r.next = "stop" -> [attempts EXCEPT ![t.sid] = 0]
     /\ step' = IF r.error THEN "error" ELSE step
     /\ ended' = IF r.error THEN ended \cup {t.sid} ELSE ended
     /\ callLog' = Logged(t.stale, r.calls)
     /\ lsSessionId' = StoredAfter(outcome, lsSessionId)
     /\ lsAccessToken' = StoredAfter(outcome, lsAccessToken)
     /\ reloadPending' = ReloadAfter(outcome, reloadPending)
     /\ UNCHANGED <<navItems, chatVars, serverRoles, shellVars, liveTimers, nextTimer, userCode, modalSessionId,
                    envVars, skipLog, logoutInvoked, failureLog, loginSucceeded>>

\* an answer to checkAuthStatus, the server answering pending at most
\* MaxPending times to one loop
BoundedStatusResponse(t, answer) ==
  /\ t \in Tasks("status")
  /\ answer = "pending" => attempts[t.sid] < MaxPending
  /\ StatusResponse(t, answer)

\* setTimeout(poll, 2000) fires
PollTimerFire(t) ==
  /\ t \in Tasks("pollTimer")
  /\ Poll(inflight (-) One(t), t.sid, attempts[t.sid], step, t.stale, callLog)
  /\ UNCHANGED <<navItems, chatVars, serverRoles, shellVars, lsSessionId, lsAccessToken, liveTimers, nextTimer,
                 reloadPending, userCode, modalSessionId, envVars, skipLog,
                 logoutInvoked, failureLog, loginSucceeded>>

\* a faulty success branch that sets the step and never calls onLoginSuccess
CompleteOkWithoutCallback(t) ==
  /\ t \in Tasks("complete")
  /\ inflight' = (inflight (-) One(t)) (+) One(Task("closeTimer", t.sid))
  /\ step' = "success"
  /\ attempts' = [attempts EXCEPT ![t.sid] = 0]
  /\ ended' = ended \cup {t.sid}
  /\ callLog' = Logged(t.stale, <<"setStep:success">>)
  /\ UNCHANGED <<navItems, chatVars, serverRoles, shellVars, lsSessionId, lsAccessToken, liveTimers, nextTimer,
                 reloadPending, userCode, modalSessionId, envVars, skipLog,
                 logoutInvoked, failureLog, loginSucceeded>>

\* completeAuth resolves: step success, onLoginSuccess, and onClose in 800 ms
\* (LoginModal.js 62-69)
CompleteOk(t) ==
  /\ t \in Tasks("complete")
  /\ HandleLoginSuccess((inflight (-) One(t)) (+) One(Task("closeTimer", t.sid)),
                        "success")
  /\ attempts' = [attempts EXCEPT ![t.sid] = 0]
  /\ ended' = ended \cup {t.sid}
  /\ callLog' = IF t.stale /\ showLoginModal THEN <<>>
                ELSE Logged(t.stale, <<"setStep:success", "onLoginSuccess">>)
  /\ UNCHANGED <<navItems, chatVars, serverRoles, isAuthenticated, sessionInfo, sessionId, loading, refreshIntervalRef,
                 path, lsSessionId, lsAccessToken, liveTimers, nextTimer,
                 reloadPending, envVars, skipLog, logoutInvoked, failureLog>>

\* a faulty catch that reports the failure of completeAuth and polls on
CompleteFailPollsOn(t, outcome) ==
  /\ t \in Tasks("complete")
  /\ outcome \in {"fail", "401"}
  /\ inflight' = (inflight (-) One(t)) (+) One(Attempt("pollTimer", t.sid, t.stale))
  /\ step' = "error"
  /\ callLog' = Logged(t.stale, <<"setStep:error", "onError:complete">>)
  /\ lsSessionId' = StoredAfter(outcome, lsSessionId)
  /\ lsAccessToken' = StoredAfter(outcome, lsAccessToken)
  /\ reloadPending' = ReloadAfter(outcome, reloadPending)
  /\ UNCHANGED <<navItems, chatVars, serverRoles, shellVars, liveTimers, nextTimer, userCode, modalSessionId,
                 attempts, envVars, skipLog, logoutInvoked, failureLog, loginSucceeded,
                 ended>>

\* completeAuth rejects (LoginModal.js 70-74)
CompleteFail(t, outcome) ==
  /\ t \in Tasks("complete")
  /\ outcome \in {"fail", "401"}
  /\ inflight' = inflight (-) One(t)
  /\ step' = "error"
  /\ attempts' = [attempts EXCEPT ![t.sid] = 0]
  /\ ended' = ended \cup {t.sid}
  /\ callLog' = Logged(t.stale, <<"setStep:error", "onError:complete">>)
  /\ lsSessionId' = StoredAfter(outcome, lsSessionId)
  /\ lsAccessToken' = StoredAfter(outcome, lsAccessToken)
  /\ reloadPending' = ReloadAfter(outcome, reloadPending)
  /\ UNCHANGED <<navItems, chatVars, serverRoles, shellVars, liveTimers, nextTimer, userCode, modalSessionId,
                 envVars, skipLog, logoutInvoked, failureLog, loginSucceeded>>

\* setTimeout(() => onClose(), 800) fires
CloseTimerFire(t) ==
  /\ t \in Tasks("closeTimer")
  /\ SetShowLoginModal(FALSE, inflight (-) One(t), step, userCode, modalSessionId)
  /\ callLog' = <<>>
  /\ UNCHANGED <<navItems, chatVars, serverRoles, isAuthenticated, sessionInfo, sessionId, loading, refreshIntervalRef,
                 path, lsSessionId, lsAccessToken, liveTimers, nextTimer,
                 reloadPending, attempts, envVars, skipLog, logoutInvoked, failureLog,
                 loginSucceeded, ended>>

\* the Try Again button of step error (LoginModal.js 194-204)
TryAgain ==
  /\ showLoginModal
  /\ step = "error"
  /\ step' = "idle"
  /\ userCode' = Null
  /\ modalSessionId' = Null
  /\ UNCHANGED <<navItems, chatVars, serverRoles, shellVars, browserVars, attempts, envVars, obsVars>>

\* the location changes: a link of the header or the address bar
Navigate(p) ==
  /\ p \in Paths
  /\ path' = Settle(p, loading, isAuthenticated, UserRoles(sessionInfo))
  /\ UNCHANGED <<navItems, chatVars, serverRoles, isAuthenticated, showLoginModal, sessionInfo, sessionId,
                 loading, refreshIntervalRef, browserVars, modalVars, envVars,
                 obsVars>>

(***************************************************************************)
(* The legacy App component (App.js 8-146).  It has no router and no       *)
(* sessionId state: path, sessionId and navItems keep their values.        *)
(* window.tokenRefreshInterval is refreshIntervalRef.                      *)
(***************************************************************************)

\* startTokenRefreshMonitor (App.js 42-60): a new interval, its id stored
\* in window.tokenRefreshInterval
LegacyStartTokenRefreshMonitor(live, next, sid) ==
  [live |-> live \cup {[id |-> next, sid |-> sid]}, ref |-> next, next |-> next + 1]

\* getSessionInfo of checkSession resolves with the session's info
\* (App.js 23-29, 38)
LegacyCheckInfoOk(t, roles, exp) ==
  /\ t \in Tasks("init.info")
  /\ roles \in RolesValues
  /\ exp \in ExpiryValues
  /\ inflight' = inflight (-) One(t)
  /\ sessionInfo' = [sid |-> t.sid, roles |-> roles, exp |-> exp]
  /\ serverRoles' = roles
  /\ isAuthenticated' = TRUE
  /\ LET m == LegacyStartTokenRefreshMonitor(liveTimers, nextTimer, t.sid)
     IN liveTimers' = m.live /\ refreshIntervalRef' = m.ref /\ nextTimer' = m.next
  /\ loading' = FALSE
  /\ UNCHANGED <<navItems, chatVars, showLoginModal, sessionId, path, lsSessionId, lsAccessToken,
                 reloadPending, modalVars, envVars, obsVars>>

\* getSessionInfo of checkSession resolves with null (App.js 30-32, 38)
LegacyCheckInfoNull(t, outcome) ==
  /\ t \in Tasks("init.info")
  /\ outcome \in Outcomes
  /\ inflight' = inflight (-) One(t)
  /\ lsSessionId' = Null
  /\ lsAccessToken' = StoredAfter(outcome, lsAccessToken)
  /\ reloadPending' = ReloadAfter(outcome, reloadPending)
  /\ loading' = FALSE
  /\ UNCHANGED <<navItems, chatVars, serverRoles, isAuthenticated, showLoginModal, sessionInfo, sessionId,
                 refreshIntervalRef, path, liveTimers, nextTimer, modalVars, envVars,
                 obsVars>>

\* handleLoginSuccess up to its await (App.js 62-69)
LegacyHandleLoginSuccess(bag, stepNow) ==
  LET storedSession == lsSessionId
      request == Request("login.info", storedSession, lsSessionId, lsAccessToken)
  IN /\ isAuthenticated' = TRUE
     /\ SetShowLoginModal(FALSE,
                          IF storedSession # Null THEN bag (+) One(request) ELSE bag,
                          stepNow, userCode, modalSessionId)
     /\ loginSucceeded' = TRUE

\* completeAuth resolves in a modal that the legacy App renders
\* (LoginModal.js 62-69, App.js 138-143)
LegacyCompleteOk(t) ==
  /\ t \in Tasks("complete")
  /\ LegacyHandleLoginSuccess((inflight (-) One(t)) (+) One(Task("closeTimer", t.sid)),
                              "success")
  /\ attempts' = [attempts EXCEPT ![t.sid] = 0]
  /\ ended' = ended \cup {t.sid}
  /\ callLog' = IF t.stale /\ showLoginModal THEN <<>>
                ELSE Logged(t.stale, <<"setStep:success", "onLoginSuccess">>)
  /\ UNCHANGED <<navItems, chatVars, serverRoles, sessionInfo, sessionId, loading, refreshIntervalRef,
                 path, lsSessionId, lsAccessToken, liveTimers, nextTimer,
                 reloadPending, envVars, skipLog, logoutInvoked, failureLog>>

\* getSessionInfo of handleLoginSuccess resolves with the session's info
\* (App.js 69-73)
LegacyLoginInfoOk(t, roles, exp) ==
  /\ t \in Tasks("login.info")
  /\ roles \in RolesValues
  /\ exp \in ExpiryValues
  /\ inflight' = inflight (-) One(t)
  /\ sessionInfo' = [sid |-> t.sid, roles |-> roles, exp |-> exp]
  /\ serverRoles' = roles
  /\ LET m == LegacyStartTokenRefreshMonitor(liveTimers, nextTimer, t.sid)
     IN liveTimers' = m.live /\ refreshIntervalRef' = m.ref /\ nextTimer' = m.next
  /\ UNCHANGED <<navItems, chatVars, isAuthenticated, showLoginModal, sessionId, loading, path,
                 lsSessionId, lsAccessToken, reloadPending, modalVars, envVars, obsVars>>

\* getSessionInfo of handleLoginSuccess resolves with null: setSessionInfo(null)
\* and the monitor is started all the same (App.js 69-73)
LegacyLoginInfoNull(t, outcome) ==
  /\ t \in Tasks("login.info")
  /\ outcome \in Outcomes
  /\ inflight' = inflight (-) One(t)
  /\ sessionInfo' = NoInfo
  /\ serverRoles' = Undefined
  /\ lsSessionId' = StoredAfter(outcome, lsSessionId)
  /\ lsAccessToken' = StoredAfter(outcome, lsAccessToken)
  /\ reloadPending' = ReloadAfter(outcome, reloadPending)
  /\ LET m == LegacyStartTokenRefreshMonitor(liveTimers, nextTimer, t.sid)
     IN liveTimers' = m.live /\ refreshIntervalRef' = m.ref /\ nextTimer' = m.next
  /\ UNCHANGED <<navItems, chatVars, isAuthenticated, showLoginModal, sessionId, loading, path,
                 modalVars, envVars, obsVars>>

\* the finally block of handleLogout (App.js 90-100): the interval in
\* window.tokenRefreshInterval is cleared, the global keeps its value
LegacyLogoutFinally(bag, outcome, timer) ==
  /\ lsSessionId' = Null
  /\ lsAccessToken' = StoredAfter(outcome, lsAccessToken)
  /\ reloadPending' = ReloadAfter(outcome, reloadPending)
  /\ isAuthenticated' = FALSE
  /\ sessionInfo' = NoInfo
  /\ serverRoles' = Undefined
  /\ liveTimers' = IF refreshIntervalRef # Null
                   THEN {tm \in liveTimers : tm.id # refreshIntervalRef}
                   ELSE liveTimers
  /\ inflight' = bag
  /\ failureLog' = IF timer # Null THEN Append(failureLog, timer) ELSE failureLog
  /\ UNCHANGED <<navItems, chatVars, showLoginModal, sessionId, loading, refreshIntervalRef, path,
                 nextTimer, modalVars, callLog>>

\* handleLogout up to its await (App.js 82-87)
LegacyHandleLogout(bag, outcome, timer) ==
  LET sid == StoredAfter(outcome, lsSessionId)
      request == Request("logout", sid, lsSessionId, lsAccessToken)
  IN IF sid # Null
     THEN /\ inflight' = bag (+) One([request EXCEPT !.timer = timer])
          /\ logoutInvoked' = logoutInvoked \cup {sid}
          /\ UNCHANGED <<navItems, chatVars, serverRoles, shellVars, lsSessionId, lsAccessToken, liveTimers,
                         nextTimer, reloadPending, modalVars, failureLog, callLog>>
     ELSE /\ LegacyLogoutFinally(bag, outcome, timer)
          /\ UNCHANGED logoutInvoked

\* the Sign Out button of the header (App.js 118)
LegacyUserLogout ==
  /\ isAuthenticated
  /\ ~loading
  /\ nLogoutClicks < MaxLogoutClicks
  /\ nLogoutClicks' = nLogoutClicks + 1
  /\ LegacyHandleLogout(inflight, "ok", Null)
  /\ UNCHANGED <<nextSid, nTicks, skipLog, loginSucceeded, ended>>

\* authAPI.logout resolves or rejects, and the finally block runs
LegacyLogoutResponse(t, outcome) ==
  /\ t \in Tasks("logout")
  /\ outcome \in Outcomes
  /\ LegacyLogoutFinally(inflight (-) One(t), outcome, t.timer)
  /\ UNCHANGED <<envVars, skipLog, logoutInvoked, loginSucceeded, ended>>

\* refreshToken of a tick rejects: the catch block calls handleLogout
\* (App.js 51-55)
LegacyTickRefreshFail(t, outcome) ==
  /\ t \in Tasks("tick.refresh")
  /\ outcome \in {"fail", "401"}
  /\ LegacyHandleLogout(inflight (-) One(t), outcome, t.timer)
  /\ UNCHANGED <<envVars, skipLog, loginSucceeded, ended>>

(***************************************************************************)
(* The specifications                                                      *)
(***************************************************************************)

\* the page after its first render: AppShell is mounted and
\* initializeSession has run up to its await.  A session id may be left in
\* localStorage by an earlier visit; accessToken is what localStorage holds
\* under that key.
MountWith(accessToken) ==
  /\ lsSessionId \in {Null, 1}
  /\ lsAccessToken = accessToken
  /\ nextSid = IF lsSessionId = Null THEN 1 ELSE 2
  /\ isAuthenticated = FALSE
  /\ showLoginModal = FALSE
  /\ sessionInfo = NoInfo
  /\ sessionId = lsSessionId
  /\ loading = (lsSessionId # Null)
  /\ refreshIntervalRef = Null
  /\ path = "/"
  /\ liveTimers = {}
  /\ nextTimer = 1
  /\ inflight = IF lsSessionId # Null
                THEN One(Request("init.info", lsSessionId, lsSessionId, lsAccessToken))
                ELSE EmptyBag
  /\ reloadPending = FALSE
  /\ step = "idle"
  /\ userCode = Null
  /\ modalSessionId = Null
  /\ attempts = [s \in Sids |-> 0]
  /\ nTicks = 0
  /\ nLogoutClicks = 0
  /\ skipLog = {}
  /\ logoutInvoked = {}
  /\ failureLog = <<>>
  /\ loginSucceeded = FALSE
  /\ ended = {}
  /\ callLog = <<>>
  /\ serverRoles = Undefined
  /\ ChatUnmounted

\* nothing in the client ever stores an access token
Mount == MountWith(Null)

\* the app as it is built, with the items of config/navigation.js
Init == Mount /\ navItems = NAVIGATION_ITEMS

\* the session lifecycle of AppShell: the monitor, logout, initialisation and
\* logins that the server authorizes at the first poll
Next ==
  \/ \E tm \in liveTimers : TimerFire(tm)
  \/ \E t \in BagToSet(inflight) : TickCheckExpiry(t)
  \/ \E t \in BagToSet(inflight) : TickCheckNoExpiry(t)
  \/ \E t \in BagToSet(inflight), o \in Outcomes : TickCheckNoInfo(t, o)
  \/ \E t \in BagToSet(inflight) : TickRefreshOk(t, serverRoles)
  \/ \E t \in BagToSet(inflight), o \in Outcomes : TickRefreshFail(t, o)
  \/ UserLogout
  \/ \E t \in BagToSet(inflight), o \in Outcomes : LogoutResponse(t, o)
  \/ \E t \in BagToSet(inflight), r \in RoleSets :
       InitInfoOk(t, Array(r), InfoExpiry)
  \/ \E t \in BagToSet(inflight), o \in Outcomes : InitInfoNull(t, o)
  \/ \E t \in BagToSet(inflight), r \in RoleSets :
       LoginInfoOk(t, Array(r), InfoExpiry)
  \/ \E t \in BagToSet(inflight), o \in Outcomes : LoginInfoNull(t, o)
  \/ OpenModal
  \/ CloseModal
  \/ InterceptorReload
  \/ StartLogin
  \/ \E t \in BagToSet(inflight) : StartAuthOk(t)
  \/ \E t \in BagToSet(inflight) : StatusResponse(t, "authorized")
  \/ \E t \in BagToSet(inflight) : CompleteOk(t)
  \/ \E t \in BagToSet(inflight) : CloseTimerFire(t)

Spec == Init /\ [][Next]_vars

\* the login modal with every answer of the server to its requests
ModalNext ==
  \/ OpenModal
  \/ CloseModal
  \/ StartLogin
  \/ \E t \in BagToSet(inflight) : StartAuthOk(t)
  \/ \E t \in BagToSet(inflight), o \in Outcomes : StartAuthFail(t, o)
  \/ \E t \in BagToSet(inflight), a \in Answers : BoundedStatusResponse(t, a)
  \/ \E t \in BagToSet(inflight) : PollTimerFire(t)
  \/ \E t \in BagToSet(inflight) : CompleteOk(t)
  \/ \E t \in BagToSet(inflight), o \in Outcomes : CompleteFail(t, o)
  \/ \E t \in BagToSet(inflight) : CloseTimerFire(t)
  \/ TryAgain
  \/ \E t \in BagToSet(inflight), r \in RoleSets :
       LoginInfoOk(t, Array(r), InfoExpiry)
  \/ \E t \in BagToSet(inflight), o \in Outcomes : LoginInfoNull(t, o)
  \/ \E t \in BagToSet(inflight), r \in RoleSets :
       InitInfoOk(t, Array(r), InfoExpiry)
  \/ \E t \in BagToSet(inflight), o \in Outcomes : InitInfoNull(t, o)
  \/ InterceptorReload

ModalSpec == Init /\ [][ModalNext]_vars

\* the Sign in button pressed while no earlier login attempt is under way
StartLoginAlone ==
  /\ PendingStarts = 0
  /\ LiveLoops(inflight) = {}
  /\ StartLogin

\* login attempts made one at a time, the server answering pending for as
\* long as it likes: a loop can use up its maxAttempts polls
PollNext ==
  \/ OpenModal
  \/ CloseModal
  \/ StartLoginAlone
  \/ \E t \in BagToSet(inflight) : StartAuthOk(t)
  \/ \E t \in BagToSet(inflight), o \in Outcomes : StartAuthFail(t, o)
  \/ \E t \in BagToSet(inflight), a \in Answers : StatusResponse(t, a)
  \/ \E t \in BagToSet(inflight) : PollTimerFire(t)
  \/ \E t \in BagToSet(inflight) : CompleteOk(t)
  \/ \E t \in BagToSet(inflight), o \in Outcomes : CompleteFail(t, o)
  \/ \E t \in BagToSet(inflight) : CloseTimerFire(t)
  \/ TryAgain
  \/ \E t \in BagToSet(inflight), r \in RoleSets :
       LoginInfoOk(t, Array(r), InfoExpiry)
  \/ \E t \in BagToSet(inflight), o \in Outcomes : LoginInfoNull(t, o)
  \/ \E t \in BagToSet(inflight), r \in RoleSets :
       InitInfoOk(t, Array(r), InfoExpiry)
  \/ \E t \in BagToSet(inflight), o \in Outcomes : InitInfoNull(t, o)
  \/ InterceptorReload

PollSpec == Init /\ [][PollNext]_vars

\* the same with the event loop's guarantees: a status request is answered,
\* a completeAuth request resolves or rejects, a poll timer that is set fires
FairPollSpec ==
  /\ Init /\ [][PollNext]_vars
  /\ WF_vars(\E t \in BagToSet(inflight), a \in Answers : StatusResponse(t, a))
  /\ WF_vars(\E t \in BagToSet(inflight) : PollTimerFire(t))
  /\ WF_vars(\E t \in BagToSet(inflight) :
               CompleteOk(t) \/ \E o \in Outcomes : CompleteFail(t, o))

\* navigation and authorization: the app built with any of the item
\* lists, a stored session whose info carries any roles value and expiry,
\* location changes and logout
NavInit == Mount /\ navItems \in ItemLists

NavNext ==
  \/ \E t \in BagToSet(inflight), r \in RolesValues, e \in ExpiryValues :
       InitInfoOk(t, r, e)
  \/ \E t \in BagToSet(inflight), o \in Outcomes : InitInfoNull(t, o)
  \/ \E p \in Paths : Navigate(p)
  \/ UserLogout
  \/ \E t \in BagToSet(inflight), o \in Outcomes : LogoutResponse(t, o)
  \/ InterceptorReload

NavSpec == NavInit /\ [][NavNext]_vars

\* the monitor of a restored session, the server free to hold other roles
\* for the session after a refresh
RefreshNext ==
  \/ \E t \in BagToSet(inflight), r \in RoleSets :
       InitInfoOk(t, Array(r), InfoExpiry)
  \/ \E tm \in liveTimers : TimerFire(tm)
  \/ \E t \in BagToSet(inflight) : TickCheckExpiry(t)
  \/ \E t \in BagToSet(inflight) : TickCheckNoExpiry(t)
  \/ \E t \in BagToSet(inflight), o \in Outcomes : TickCheckNoInfo(t, o)
  \/ \E t \in BagToSet(inflight), r \in RoleSets : TickRefreshOk(t, Array(r))
  \/ \E t \in BagToSet(inflight), o \in Outcomes : TickRefreshFail(t, o)
  \/ \E t \in BagToSet(inflight), o \in Outcomes : LogoutResponse(t, o)
  \/ InterceptorReload

RefreshSpec == Init /\ [][RefreshNext]_vars

\* the same with an access token in localStorage, put there by another page
\* of the origin
StorageInit == MountWith(1) /\ navItems = NAVIGATION_ITEMS

StorageNext ==
  \/ RefreshNext
  \/ \E t \in BagToSet(inflight), o \in Outcomes : InitInfoNull(t, o)
  \/ UserLogout

StorageSpec == StorageInit /\ [][StorageNext]_vars

\* the legacy App with its monitor, logout, session check and the logins of
\* its modal that the server authorizes at the first poll
LegacyNext ==
  \/ \E tm \in liveTimers : TimerFire(tm)
  \/ \E t \in BagToSet(inflight) : TickCheckExpiry(t)
  \/ \E t \in BagToSet(inflight) : TickCheckNoExpiry(t)
  \/ \E t \in BagToSet(inflight), o \in Outcomes : TickCheckNoInfo(t, o)
  \/ \E t \in BagToSet(inflight) : TickRefreshOk(t, serverRoles)
  \/ \E t \in BagToSet(inflight), o \in Outcomes : LegacyTickRefreshFail(t, o)
  \/ LegacyUserLogout
  \/ \E t \in BagToSet(inflight), o \in Outcomes : LegacyLogoutResponse(t, o)
  \/ \E t \in BagToSet(inflight), r \in RoleSets :
       LegacyCheckInfoOk(t, Array(r), InfoExpiry)
  \/ \E t \in BagToSet(inflight), o \in Outcomes : LegacyCheckInfoNull(t, o)
  \/ \E t \in BagToSet(inflight), r \in RoleSets :
       LegacyLoginInfoOk(t, Array(r), InfoExpiry)
  \/ \E t \in BagToSet(inflight), o \in Outcomes : LegacyLoginInfoNull(t, o)
  \/ OpenModal
  \/ CloseModal
  \/ InterceptorReload
  \/ StartLogin
  \/ \E t \in BagToSet(inflight) : StartAuthOk(t)
  \/ \E t \in BagToSet(inflight) : StatusResponse(t, "authorized")
  \/ \E t \in BagToSet(inflight) : LegacyCompleteOk(t)
  \/ \E t \in BagToSet(inflight) : CloseTimerFire(t)

LegacySpec == Init /\ [][LegacyNext]_vars

\* a render of AppShell before its effects have run: loading, logged out or
\* authenticated with any roles, at any location, with any list of items
Rendered ==
  /\ navItems \in ItemLists
  /\ path \in Paths
  /\ lsSessionId \in {Null, 1}
  /\ loading \in BOOLEAN
  /\ isAuthenticated \in BOOLEAN
  /\ ~(loading /\ isAuthenticated)
  /\ (loading \/ isAuthenticated) => lsSessionId = 1
  /\ sessionInfo \in IF isAuthenticated
                     THEN {[sid |-> 1, roles |-> r, exp |-> InfoExpiry] : r \in RolesValues}
                     ELSE {NoInfo}
  /\ serverRoles = sessionInfo.roles
  /\ sessionId = IF loading \/ isAuthenticated THEN 1 ELSE Null
  /\ liveTimers = IF isAuthenticated THEN {[id |-> 1, sid |-> 1]} ELSE {}
  /\ refreshIntervalRef = IF isAuthenticated THEN 1 ELSE Null
  /\ nextTimer = IF isAuthenticated THEN 2 ELSE 1
  /\ inflight = IF loading THEN One(Request("init.info", 1, 1, Null)) ELSE EmptyBag
  /\ lsAccessToken = Null
  /\ nextSid = IF lsSessionId = Null THEN 1 ELSE 2
  /\ showLoginModal = FALSE
  /\ reloadPending = FALSE
  /\ step = "idle"
  /\ userCode = Null
  /\ modalSessionId = Null
  /\ attempts = [s \in Sids |-> 0]
  /\ nTicks = 0
  /\ nLogoutClicks = 0
  /\ skipLog = {}
  /\ logoutInvoked = {}
  /\ failureLog = <<>>
  /\ loginSucceeded = FALSE
  /\ ended = {}
  /\ callLog = <<>>
  /\ ChatUnmounted

\* the effect of App.js 289-297 navigates
UnauthRedirectEffect ==
  /\ path' = UnauthRedirect(path, loading, isAuthenticated)
  /\ path' # path
  /\ UNCHANGED <<navItems, chatVars, serverRoles, isAuthenticated, showLoginModal, sessionInfo, sessionId,
                 loading, refreshIntervalRef, browserVars, modalVars, envVars,
                 obsVars>>

\* the effect of App.js 316-330 navigates
RoleRedirectEffect ==
  /\ path' = RoleRedirect(path, isAuthenticated, UserRoles(sessionInfo))
  /\ path' # path
  /\ UNCHANGED <<navItems, chatVars, serverRoles, isAuthenticated, showLoginModal, sessionInfo, sessionId,
                 loading, refreshIntervalRef, browserVars, modalVars, envVars,
                 obsVars>>

\* the redirects of a render, one navigation at a time
RedirectNext ==
  \/ UnauthRedirectEffect
  \/ RoleRedirectEffect

RedirectSpec == Rendered /\ [][RedirectNext]_vars

(***************************************************************************)
(* Properties                                                              *)
(***************************************************************************)

\* what a step does to the continuations in flight, and the step in which
\* the page reloads
Added(t) == CopiesIn(t, inflight') > CopiesIn(t, inflight)
Consumed(t) == CopiesIn(t, inflight') < CopiesIn(t, inflight)
PageReloaded == reloadPending /\ ~reloadPending'

\* the step completes a handleLogout that a failed refresh called
FailureHandled == Len(failureLog') > Len(failureLog)

\* interval timers one of whose ticks had its refresh rejected
FailedTimers ==
  ({t.timer : t \in Tasks("logout")} \ {Null})
    \cup {failureLog[i] : i \in 1..Len(failureLog)}

\* C1: a tick issues a refresh request if and only if the token expires
\* within the buffer (now + bufferMinutes >= token_expires_at) or the expiry
\* cannot be determined: every refresh request in flight was due, and no
\* tick ended without a refresh while one was due.
C1_RefreshIffDue ==
  /\ \A t \in Tasks("tick.refresh") : t.due
  /\ TRUE \notin skipLog

C3_FailedTimerNeverTicksAgain ==
  [][ /\ \A t \in BagToSet(inflight') :
           (t.k = "tick.check" /\ Added(t)) => t.timer \notin FailedTimers
      /\ (liveTimers' \ liveTimers # {}) =>
           \E t \in Tasks("login.info") \cup Tasks("init.info") : Consumed(t)
    ]_vars

\* C4: once handleLogout has been invoked for a session id, no refresh
\* request for that id is issued.
C4_NoRefreshAfterLogout ==
  [][ \A t \in BagToSet(inflight') :
        (t.k = "tick.refresh" /\ Added(t)) => t.sid \notin logoutInvoked
    ]_vars

\* C5: every step in which handleLogout reaches its end (the server logout
\* resolved or rejected, or no session id was stored) leaves the monitor
\* stopped, no stored session id, sessionId null, isAuthenticated false,
\* sessionInfo null, the modal hidden and the route /logged-out.
C5_LogoutEndsLoggedOut ==
  [][ ( /\ ~PageReloaded
        /\ \/ \E t \in Tasks("logout") : Consumed(t)
           \/ FailureHandled
           \/ nLogoutClicks' > nLogoutClicks /\ lsSessionId = Null )
      => /\ refreshIntervalRef' = Null
         /\ liveTimers' = {}
         /\ lsSessionId' = Null
         /\ sessionId' = Null
         /\ ~isAuthenticated'
         /\ sessionInfo' = NoInfo
         /\ ~showLoginModal'
         /\ path' = "/logged-out"
    ]_vars

C5_Witness ==
  /\ nLogoutClicks > 0
  /\ Tasks("logout") = {}
  /\ failureLog = <<>>
  /\ ~isAuthenticated
  /\ sessionId = Null
  /\ path = "/logged-out"

\* C6: at most one refresh interval timer is live in every reachable state,
\* and startTokenRefreshMonitor with an empty session id changes nothing.
C6_AtMostOneRefreshTimer ==
  /\ Cardinality(liveTimers) <= 1
  /\ StartTokenRefreshMonitor(liveTimers, refreshIntervalRef, nextTimer, Null)
       = [live |-> liveTimers, ref |-> refreshIntervalRef, next |-> nextTimer]

\* the monitor was started twice with no tick, logout or failure between
C6_Witness ==
  /\ nextTimer = 3
  /\ Cardinality(liveTimers) = 1
  /\ nTicks = 0
  /\ nLogoutClicks = 0
  /\ logoutInvoked = {}

\* C7: once a login has succeeded, every request sent to a protected
\* endpoint carries both X-Session-ID and a bearer credential.
C7_ProtectedRequestsCarryBoth ==
  [][ loginSucceeded' =>
        \A t \in BagToSet(inflight') :
          (t.k \in ProtectedKinds /\ Added(t)) => (t.xsid # Null /\ t.tok # Null)
    ]_vars

\* C8: the answer to a status poll of an attempt the modal was closed on is
\* discarded: it changes no step, calls neither completeAuth nor
\* onLoginSuccess, and schedules no further poll.
C8_StalePollDiscarded ==
  [][ \A t \in Tasks("status") :
        (t.stale /\ Consumed(t) /\ ~PageReloaded) =>
          /\ step' = step
          /\ loginSucceeded' = loginSucceeded
          /\ ~\E r \in BagToSet(inflight') :
                r.sid = t.sid /\ r.k \in LoopKinds /\ Added(r)
    ]_vars

\* C9: at most one login attempt is live: the unanswered /api/auth/start
\* requests and the polling loops under way are at most one together.
C9_OneLiveAttempt == PendingStarts + Cardinality(LiveLoops(inflight)) <= 1

\* C10: each session id has at most one continuation of its polling loop
\* (status request, poll timer or completeAuth) outstanding, and none once
\* the loop has reached a terminal outcome.
C10_OnePollPerSession ==
  \A sid \in Sids :
    LET loop == {t \in BagToSet(inflight) : t.sid = sid /\ t.k \in LoopKinds}
    IN /\ Cardinality(loop) <= 1
       /\ \A t \in loop : CopiesIn(t, inflight) = 1
       /\ sid \in ended => loop = {}

\* a second poll is outstanding for one session, another loop has ended
C10_Witness ==
  /\ \E t \in Tasks("status") : attempts[t.sid] >= 1
  /\ ended # {}

\* the continuations of the polling loop of session sid, and whether the
\* step is one of that loop (closing the modal only marks them)
LoopTasks(bag, sid) == {t \in BagToSet(bag) : t.k \in LoopKinds /\ t.sid = sid}
LoopStep(sid) ==
  \E t \in LoopTasks(inflight, sid) :
    Consumed(t) /\ ~Added([t EXCEPT !.stale = TRUE])

\* what a polling loop has left to do at most: 0 when it is over, and two
\* steps for each attempt it may still make
TaskRank(t, att) ==
  CASE t.k = "complete" -> 1
    [] t.k = "status" -> 2 * (maxAttempts - att[t.sid]) + 2
    [] t.k = "pollTimer" -> 2 * (maxAttempts - att[t.sid]) + 3
PollRank(bag, att, sid) ==
  LET ranks == {TaskRank(t, att) : t \in LoopTasks(bag, sid)}
  IN IF ranks = {} THEN 0 ELSE CHOOSE r \in ranks : \A q \in ranks : q <= r

\* C11: every polling loop terminates.  A status request is only ever out
\* for one of the attempts 0..149, so a loop issues at most 150 of them;
\* every step of a loop brings it nearer to its end and no step takes it
\* further away; when the timer fires after the 150th pending answer the
\* loop stops with step error and onError('Authentication timeout...')
\* (unless that step is the reload of the page);
\* and a loop that is over (the page not being reloaded) is over with step
\* error or with the success branch (step success, onClose in 800 ms).
\* With its requests answered and its timers fired, a loop that is under
\* way is over at some later time: none polls for ever.
C11_PollingTerminates ==
  /\ [][\A sid \in Sids :
       LET before == PollRank(inflight, attempts, sid)
           after == PollRank(inflight', attempts', sid)
       IN /\ \A t \in BagToSet(inflight') :
               t.k = "status" => attempts'[t.sid] < maxAttempts
          /\ before > 0 => after <= before
          /\ LoopStep(sid) => after < before
          /\ (before > 0 /\ after = 0 /\ ~PageReloaded) =>
               /\ sid \in ended'
               /\ step' = "error" \/ Added(Task("closeTimer", sid))
          /\ \A stale \in BOOLEAN :
               (/\ Consumed(Attempt("pollTimer", sid, stale))
                /\ LoopStep(sid)
                /\ ~PageReloaded
                /\ attempts[sid] = maxAttempts) =>
                 /\ after = 0
                 /\ step' = "error"
                 /\ ~stale =>
                      callLog' = callLog \o <<"setStep:error", "onError:timeout">>
      ]_vars
  /\ \A sid \in Sids :
       (LoopTasks(inflight, sid) # {}) ~> (LoopTasks(inflight, sid) = {})

\* a loop has used up its 150 attempts and reported the timeout
C11_Witness ==
  /\ Len(callLog) > 0
  /\ callLog[Len(callLog)] = "onError:timeout"
  /\ step = "error"
  /\ ended # {}

\* C12: the modal never abandons an attempt on a cutoff of its own while
\* the server still reports the attempt as pending.  A poll timer is set
\* only after a pending answer, so when it fires (the page not being
\* reloaded) the loop asks the server again and does not end.
C12_PendingAttemptKeepsPolling ==
  [][\A sid \in Sids, stale \in BOOLEAN :
       (/\ Consumed(Attempt("pollTimer", sid, stale))
        /\ LoopStep(sid)
        /\ ~PageReloaded) =>
         /\ Added(Attempt("status", sid, stale))
         /\ sid \notin ended'
    ]_vars

\* the calls of onError, and how often a log has a call of a set
OnErrorCalls ==
  {"onError:start", "onError:timeout", "onError:unauthorized", "onError:status",
   "onError:request", "onError:complete"}
Count(log, calls) == Cardinality({i \in 1..Len(log) : log[i] \in calls})
LastCall(log) == IF Len(log) = 0 THEN "" ELSE log[Len(log)]

\* the step in which the calls are made by the attempt the modal shows
Calls(calls) == callLog' = callLog \o calls /\ calls # <<>>

\* C13: a denied login is terminal and never retried.  The step that
\* receives completed + not authorized sets step error, calls onError once
\* and puts nothing in flight: no completeAuth, no poll timer, no status
\* request, no onLoginSuccess; the loop is over.  From then on the attempt
\* makes no call at all: its log ends with that one onError and holds no
\* completeAuth and no onLoginSuccess, and no loop is under way.
C13_DeniedIsTerminal ==
  /\ [][Calls(<<"setStep:error", "onError:unauthorized">>) =>
          /\ \E sid \in Sids :
               /\ Consumed(Attempt("status", sid, FALSE))
               /\ LoopTasks(inflight', sid) = {}
               /\ sid \in ended'
          /\ \A t \in BagToSet(inflight') : ~Added(t)
          /\ step' = "error"
          /\ UNCHANGED <<showLoginModal, loginSucceeded, isAuthenticated>>
      ]_vars
  /\ [](Count(callLog, {"onError:unauthorized"}) > 0 =>
          /\ LastCall(callLog) = "onError:unauthorized"
          /\ Count(callLog, OnErrorCalls) = 1
          /\ Count(callLog, {"completeAuth", "onLoginSuccess"}) = 0
          /\ LiveLoops(inflight) = {})

\* the attempt the modal shows was denied and the modal is at step error
C13_Witness ==
  /\ LastCall(callLog) = "onError:unauthorized"
  /\ step = "error"
  /\ \E sid \in ended : sid = modalSessionId

\* C14: a transient failure of a status poll is tolerated.  A loop that
\* is under way has had every status request answered so far, so a request
\* that is rejected now (a network error or a 5xx: no 401, which makes the
\* page reload) is its first failure: the step in which poll's catch
\* handles it leaves the step as it is and schedules the next poll.
C14_FailedPollIsRetried ==
  [][\A sid \in Sids :
       (/\ Consumed(Attempt("status", sid, FALSE))
        /\ LoopStep(sid)
        /\ callLog' = callLog \o PollStep("fail").calls
        /\ reloadPending' = reloadPending) =>
         /\ Added(Attempt("pollTimer", sid, FALSE))
         /\ step' = step
         /\ sid \notin ended'
    ]_vars

\* C15: when the server reports status timeout or error for an attempt, the
\* attempt ends at once, however many of its 150 polls are left: the step
\* that receives the answer, at any attempt number from 0 to 149, sets step
\* error, calls onError once and schedules no poll and no request; the loop
\* is over, and while the log holds that onError it is its last call and
\* its only onError, and no loop is under way.
C15_ServerExpiryEndsAttempt ==
  /\ [][Calls(<<"setStep:error", "onError:status">>) =>
          /\ \E sid \in Sids :
               /\ Consumed(Attempt("status", sid, FALSE))
               /\ attempts[sid] \in 0..(maxAttempts - 1)
               /\ PollRank(inflight', attempts', sid) = 0
               /\ sid \in ended'
          /\ \A t \in BagToSet(inflight') : ~Added(t)
          /\ step' = "error"
      ]_vars
  /\ [](Count(callLog, {"onError:status"}) > 0 =>
          /\ LastCall(callLog) = "onError:status"
          /\ Count(callLog, OnErrorCalls) = 1
          /\ LiveLoops(inflight) = {})

\* the server reported the expiry of the attempt the modal shows
C15_Witness ==
  /\ LastCall(callLog) = "onError:status"
  /\ step = "error"
  /\ modalSessionId \in ended
  /\ LoopTasks(inflight, modalSessionId) = {}

\* the calls of a login that succeeds, from the Sign in button on
SuccessLog ==
  <<"setStep:loading", "setStep:code", "setStep:polling", "completeAuth",
    "setStep:success", "onLoginSuccess">>

\* C16: a login whose polls report pending k times (k < 150), then
\* completed and authorized, and whose completeAuth succeeds.  The Sign in
\* button starts it at step idle; in the step in which completeAuth
\* resolves the attempt has made, in this order, setStep loading, code,
\* polling, one call of completeAuth, setStep success and one call of
\* onLoginSuccess, which closes the modal and issues getSessionInfo; the
\* close is scheduled.  No log ever holds a second completeAuth or
\* onLoginSuccess.
C16_SuccessfulLoginSteps ==
  /\ [][/\ (callLog' = <<"setStep:loading">> /\ callLog' # callLog) =>
             step = "idle" /\ step' = "loading"
        /\ \A sid \in Sids :
             (/\ Consumed(Attempt("complete", sid, FALSE))
              /\ LoopStep(sid)
              /\ ~PageReloaded
              /\ step' # "error") =>
               /\ callLog' = SuccessLog
               /\ callLog = SubSeq(SuccessLog, 1, 4)
               /\ Added(Task("closeTimer", sid))
               /\ ~showLoginModal'
               /\ loginSucceeded'
               /\ PollRank(inflight', attempts', sid) = 0
               /\ lsSessionId # Null =>
                    Added(Request("login.info", lsSessionId, lsSessionId,
                                  lsAccessToken))
      ]_vars
  /\ [](/\ Count(callLog, {"completeAuth"}) <= 1
        /\ Count(callLog, {"onLoginSuccess"}) <= 1
        /\ Count(callLog, {"onLoginSuccess"}) = 1 => callLog = SuccessLog)

\* a login has succeeded: the modal is closed and the app is authenticated
\* for the session the login stored
C16_Witness ==
  /\ callLog = SuccessLog
  /\ loginSucceeded
  /\ ~showLoginModal
  /\ isAuthenticated
  /\ sessionId = lsSessionId
  /\ sessionId \in ended

\* C17: access is denied when the session is not authenticated, whatever
\* the role requirements.  In every unauthenticated state, for every value
\* the cached roles may have, availableNavItems is empty (also for items
\* with an empty role requirement, with or without requiresAuth), every
\* route rendered is the logged out page, and once loading is over the
\* location is / or /logged-out.
C17_UnauthenticatedDenied ==
  ~isAuthenticated =>
    /\ \A r \in RolesValues :
         LET roles == UserRoles([sessionInfo EXCEPT !.roles = r])
         IN /\ AvailableNavItems(isAuthenticated, roles) = <<>>
            /\ \A route \in Routes(loading, isAuthenticated, roles) :
                 route.page = "LoggedOutPage"
    /\ ~loading => path \in {"/", "/logged-out"}

\* a user has logged out of an app that has an item with an empty role
\* requirement and no requiresAuth
C17_Witness ==
  /\ ~isAuthenticated
  /\ ~loading
  /\ logoutInvoked # {}
  /\ path = "/logged-out"
  /\ \E i \in 1..Len(navItems) :
       navItems[i].roles = {} /\ ~navItems[i].requiresAuth

\* the paths of a list of items
ItemPaths(items) == {items[i].path : i \in 1..Len(items)}

\* C18: for an authenticated session an item is available if and only if
\* its required roles are empty or share a role with the user's roles (so
\* never when they are non-empty and disjoint from them); a page is routed
\* for exactly the available items, and when there are any the location is
\* one of them.
C18_AvailableIffRoleShared ==
  isAuthenticated =>
    LET roles == UserRoles(sessionInfo)
        av == AvailableNavItems(isAuthenticated, roles)
    IN /\ \A i \in 1..Len(navItems) :
            (\E j \in 1..Len(av) : av[j] = navItems[i])
              <=> (navItems[i].roles = {} \/ navItems[i].roles \cap roles # {})
       /\ \A j \in 1..Len(av) : \E i \in 1..Len(navItems) : av[j] = navItems[i]
       /\ {route.path : route \in {r \in Routes(loading, isAuthenticated, roles) :
                                     r.page = "PageComponent"}}
            = IF loading THEN {} ELSE ItemPaths(av)
       /\ Len(av) > 0 => path \in ItemPaths(av)

\* an authenticated user with a role has an item open to every role and is
\* kept from an item that requires roles the user does not have
C18_Witness ==
  /\ isAuthenticated
  /\ UserRoles(sessionInfo) # {}
  /\ \E i, j \in 1..Len(navItems) :
       /\ navItems[i].roles = {}
       /\ navItems[j].roles # {}
       /\ navItems[j].roles \cap UserRoles(sessionInfo) = {}
       /\ path = navItems[i].path
       /\ Len(AvailableNavItems(isAuthenticated, UserRoles(sessionInfo))) = 1

\* C19: absent roles are an explicit empty set that denies every
\* role-gated operation.  In every authenticated state whose session info
\* has roles undefined, null or an empty array, userRoles is empty, no item
\* of NAVIGATION_ITEMS is available, no item with a role requirement of the
\* app's own list is, and when all items of that list are role-gated (as in
\* NAVIGATION_ITEMS) the user is at /unauthorized and that is the only
\* route.
C19_AbsentRolesDenyAll ==
  (isAuthenticated /\ sessionInfo.roles \in {Undefined, NullRoles, Array({})}) =>
    LET roles == UserRoles(sessionInfo)
        av == AvailableNavItems(isAuthenticated, roles)
    IN /\ roles = {}
       /\ NavItemsFor(NAVIGATION_ITEMS, isAuthenticated, roles) = <<>>
       /\ \A j \in 1..Len(av) : av[j].roles = {}
       /\ (\A i \in 1..Len(navItems) : navItems[i].roles # {}) =>
            /\ path = UNAUTHORIZED_ROUTE
            /\ Routes(loading, isAuthenticated, roles) =
                 {[path |-> UNAUTHORIZED_ROUTE, page |-> "UnauthorizedPage"]}

\* a session whose info has no roles array is authenticated in the app
\* built with NAVIGATION_ITEMS and rests at /unauthorized
C19_Witness ==
  /\ isAuthenticated
  /\ sessionInfo.roles \in {Undefined, NullRoles}
  /\ navItems = NAVIGATION_ITEMS
  /\ path = UNAUTHORIZED_ROUTE
  /\ ~loading

\* the readings of the clock at which access is evaluated: up to the
\* latest expiry a session info carries
EvalTimes == 0..(MaxClock + bufferMinutes + 1)

\* C20: access is denied once now >= token_expires_at, the expiry being
\* looked at when access is evaluated.  For an authenticated session whose
\* info carries token_expires_at, at every reading of the clock at or after
\* it no navigation item is available and no page of one is routed.
C20_ExpiredSessionDenied ==
  \A now \in EvalTimes :
    (isAuthenticated /\ sessionInfo.exp # Null /\ now >= sessionInfo.exp) =>
      /\ AvailableNavItems(isAuthenticated, UserRoles(sessionInfo)) = <<>>
      /\ \A route \in Routes(loading, isAuthenticated, UserRoles(sessionInfo)) :
           route.page # "PageComponent"

\* the two states a session lifecycle may rest in
FullyAuthenticated ==
  /\ isAuthenticated
  /\ sessionInfo # NoInfo
  /\ sessionId # Null
  /\ lsSessionId = sessionId
  /\ liveTimers = {[id |-> refreshIntervalRef, sid |-> sessionId]}
FullyLoggedOut ==
  /\ ~isAuthenticated
  /\ sessionInfo = NoInfo
  /\ sessionId = Null
  /\ lsSessionId = Null
  /\ liveTimers = {}
  /\ refreshIntervalRef = Null

\* C21: a login completion that overlaps a logout.  handleLoginSuccess is
\* suspended on getSessionInfo for the id it read from localStorage; when
\* its request is answered after a handleLogout has run to its end in
\* between (the stored id is gone, no 401 and no reload being involved),
\* the state after the step is fully authenticated or fully logged out.
C21_LoginLogoutOverlap ==
  [][\A t \in Tasks("login.info") :
       (/\ Consumed(t)
        /\ lsSessionId = Null
        /\ ~reloadPending /\ ~reloadPending') =>
         FullyAuthenticated' \/ FullyLoggedOut'
    ]_vars

\* C22: sessions persist across page loads.  The page mounts with a stored
\* sessionId and initializeSession awaits getSessionInfo for it; the step
\* in which the answer arrives ends loading, and either (info) the app is
\* authenticated for that id, the id stays stored and exactly one refresh
\* monitor runs, for that id; or (null, for any failure of the request)
\* the stored id is removed, the sessionId state is null, the app is
\* unauthenticated and no monitor is started.  While loading the app is
\* unauthenticated and has no monitor.
C22_StoredSessionRestored ==
  /\ [][\A t \in Tasks("init.info") :
          (Consumed(t) /\ ~PageReloaded) =>
            /\ ~loading'
            /\ \/ /\ isAuthenticated'
                  /\ sessionInfo'.sid = t.sid
                  /\ sessionId' = t.sid
                  /\ lsSessionId' = t.sid
                  /\ liveTimers' = {[id |-> refreshIntervalRef', sid |-> t.sid]}
               \/ /\ ~isAuthenticated'
                  /\ sessionInfo' = NoInfo
                  /\ sessionId' = Null
                  /\ lsSessionId' = Null
                  /\ liveTimers' = {}
      ]_vars
  /\ [](loading =>
          /\ ~isAuthenticated
          /\ liveTimers = {}
          /\ Tasks("init.info") =
               {Request("init.info", lsSessionId, lsSessionId, lsAccessToken)}
          /\ sessionId = lsSessionId /\ lsSessionId # Null)

\* the stored session was restored at page load, without a login
C22_Witness ==
  /\ isAuthenticated
  /\ ~loading
  /\ ~loginSucceeded
  /\ sessionId = lsSessionId
  /\ sessionInfo.sid = sessionId
  /\ Cardinality(liveTimers) = 1

\* C23: a silent refresh after which the server holds other roles for the
\* session leaves sessionInfo.roles equal to the new roles
C23_RefreshUpdatesRoles ==
  [][\A t \in Tasks("tick.refresh") :
       (Consumed(t) /\ isAuthenticated' /\ serverRoles' # serverRoles) =>
         sessionInfo'.roles = serverRoles']_vars

\* C24: the handleLogout that a rejected refresh of a tick of session A calls
\* sends its logout request for A only, and removes no stored id but A's
\* (steps with no page reload pending)
C24_FailedTickLogsOutItsSession ==
  [][\A t \in Tasks("tick.refresh") :
       (Consumed(t) /\ ~reloadPending /\ ~reloadPending') =>
         /\ \A u \in BagToSet(inflight') :
              (u.k = "logout" /\ Added(u)) => u.sid = t.sid
         /\ (lsSessionId # Null /\ lsSessionId' = Null) => lsSessionId = t.sid]_vars

\* C25: an authenticated user never rests on a page the user's roles do not
\* allow.  The location is the path of an available item, or /unauthorized
\* when no item is available; asking for any other path leads to the first
\* available item (or /unauthorized), asking for an available one leads to
\* it; with NAVIGATION_ITEMS a user whose only role is user is never at
\* /chat or /dashboard.
C25_NeverRestsOnForbiddenPage ==
  isAuthenticated =>
    LET roles == UserRoles(sessionInfo)
        av == AvailableNavItems(isAuthenticated, roles)
        fallback == IF Len(av) = 0 THEN UNAUTHORIZED_ROUTE ELSE av[1].path
    IN /\ path \in (IF Len(av) = 0 THEN {UNAUTHORIZED_ROUTE} ELSE ItemPaths(av))
       /\ \A p \in Paths :
            Settle(p, loading, isAuthenticated, roles) =
              IF p \in ItemPaths(av) THEN p ELSE fallback
       /\ (navItems = NAVIGATION_ITEMS /\ roles = {"user"}) =>
            path \notin {"/chat", "/dashboard"}

\* a user with the role user in an app whose first item is for admins only:
\* the user is at the second item, the first one available
C25_Witness ==
  /\ isAuthenticated
  /\ ~loading
  /\ UserRoles(sessionInfo) = {"user"}
  /\ Len(navItems) = 2
  /\ navItems[1].roles = {"admin"}
  /\ navItems[2].roles = {"user"}
  /\ path = navItems[2].path

\* the step runs the finally block of handleLogout, no page reload pending
LogoutCompletes ==
  /\ ~reloadPending /\ ~reloadPending'
  /\ \/ \E t \in Tasks("logout") : Consumed(t)
     \/ isAuthenticated /\ ~isAuthenticated'

\* C26: in the legacy App, when handleLogout completes no interval that
\* startTokenRefreshMonitor started is live
C26_LegacyLogoutStopsEveryInterval ==
  [][LogoutCompletes => liveTimers' = {}]_vars

\* C27: when onLoginSuccess fires because the polling for session S
\* completed, the session whose info handleLoginSuccess asks for, and which
\* AppShell then activates, is S
C27_LoginActivatesPolledSession ==
  [][\A t \in Tasks("complete") :
       (Consumed(t) /\ ~reloadPending /\ ~reloadPending') =>
         \A u \in BagToSet(inflight') :
           (u.k = "login.info" /\ Added(u)) => u.sid = t.sid]_vars

C29_LoggedOutRedirect ==
  (~loading /\ ~isAuthenticated) =>
    /\ path \in {"/", "/logged-out"}
    /\ \A p \in Paths :
         Settle(p, loading, isAuthenticated, UserRoles(sessionInfo)) =
           IF p \in {"/", "/logged-out"} THEN p ELSE "/logged-out"

\* a visitor who never had a session is at /logged-out
C29_Witness ==
  /\ ~loading
  /\ ~isAuthenticated
  /\ path = "/logged-out"
  /\ lsSessionId = Null
  /\ logoutInvoked = {}
  /\ nextSid = 1

\* neither redirect effect navigates away from the location
Settled ==
  /\ UnauthRedirect(path, loading, isAuthenticated) = path
  /\ RoleRedirect(path, isAuthenticated, UserRoles(sessionInfo)) = path

\* C30: the two redirect effects reach a fixpoint.  From every render
\* (authentication state, roles, location, list of items) a redirect leads
\* to a location at which neither effect navigates again, so at most one
\* redirect happens and there is no redirect loop; that location is the one
\* Settle computes; an authenticated user with no available item stays at
\* /unauthorized.
C30_RedirectsReachFixpoint ==
  /\ [][path' # path => Settled']_vars
  /\ [](LET roles == UserRoles(sessionInfo)
            q == Settle(path, loading, isAuthenticated, roles)
        IN /\ UnauthRedirect(q, loading, isAuthenticated) = q
           /\ RoleRedirect(q, isAuthenticated, roles) = q
           /\ Settled <=> (q = path)
           /\ (/\ isAuthenticated
               /\ AvailableNavItems(isAuthenticated, roles) = <<>>
               /\ path = UNAUTHORIZED_ROUTE) => Settled)

\* an authenticated user with no available item in the app built with
\* NAVIGATION_ITEMS is at /unauthorized and no effect navigates
C30_Witness ==
  /\ isAuthenticated
  /\ navItems = NAVIGATION_ITEMS
  /\ AvailableNavItems(isAuthenticated, UserRoles(sessionInfo)) = <<>>
  /\ path = UNAUTHORIZED_ROUTE
  /\ Settled
  /\ ~ENABLED RedirectNext

\* the step receives the first 401 of the page
First401 == ~reloadPending /\ reloadPending'

\* C31: on a 401 the client removes sessionId and accessToken from
\* localStorage and reloads the page, and the request still fails for its
\* caller (getSessionInfo gives null: initializeSession ends logged out and
\* the tick goes on to refreshToken; refreshToken rejects: handleLogout runs;
\* logout rejects: the finally block runs).  Without a 401 accessToken is
\* left alone and sessionId is removed only by handleLogout.
C31_UnauthorizedClearsAndReloads ==
  /\ [][First401 =>
          /\ lsSessionId' = Null /\ lsAccessToken' = Null
          /\ \A t \in BagToSet(inflight) : Consumed(t) =>
               /\ t.k = "init.info" => (~isAuthenticated' /\ ~loading')
               /\ t.k = "tick.check" =>
                    \E u \in BagToSet(inflight') : u.k = "tick.refresh" /\ Added(u)
               /\ t.k = "tick.refresh" => FailureHandled
               /\ t.k = "logout" => (~isAuthenticated' /\ liveTimers' = {})]_vars
  /\ [][(~reloadPending /\ ~reloadPending') =>
          /\ lsAccessToken' = lsAccessToken
          /\ lsSessionId' # lsSessionId =>
               /\ lsSessionId' = Null
               /\ \E t \in Tasks("logout") \cup Tasks("init.info") : Consumed(t)]_vars
  /\ [](reloadPending => (lsSessionId = Null /\ lsAccessToken = Null))
  /\ [][PageReloaded => (liveTimers' = {} /\ ~isAuthenticated' /\ ~loading')]_vars

\* a 401 has cleared localStorage and the reload is pending, while a request
\* sent before it still carries the token that was stored
C31_Witness ==
  /\ reloadPending
  /\ lsSessionId = Null
  /\ lsAccessToken = Null
  /\ \E t \in BagToSet(inflight) : t.tok = 1 /\ t.xsid = 1

C33_CheckTokenExpiryFailsSafe ==
  /\ [](\A now \in Clock :
          /\ \A info \in {NoInfo, [sid |-> 1, roles |-> Array({}), exp |-> Null]} :
               \A e \in ExpiryTimes(now) \cup {InvalidDate}, has \in BOOLEAN :
                 (info = NoInfo \/ ~has) =>
                   CheckTokenExpiry(info, has, e, now) =
                     [t |-> "object", needsRefresh |-> TRUE, sessionInfo |-> info]
          /\ \A e \in ExpiryTimes(now) :
               LET info == [sid |-> 1, roles |-> Array({}), exp |-> e]
                   result == CheckTokenExpiry(info, TRUE, e, now)
               IN /\ result.t = "object"
                  /\ result.sessionInfo = info
                  /\ result.needsRefresh = (now + 5 >= e)
                  /\ e = now + 5 => result.needsRefresh
                  /\ e = now + 6 => ~result.needsRefresh
          /\ ~CheckTokenExpiry([sid |-> 1, roles |-> Array({}), exp |-> InvalidDate],
                               TRUE, InvalidDate, now).needsRefresh)
  /\ [][\A t \in Tasks("tick.check") :
          (Consumed(t) /\ ~PageReloaded) =>
            /\ \E u \in BagToSet(inflight') :
                 u.k = "tick.refresh" /\ u.sid = t.sid /\ u.timer = t.timer /\ Added(u)
            /\ First401 =>
                 \E u \in BagToSet(inflight') : u.k = "tick.refresh" /\ u.due /\ Added(u)
      ]_vars

\* two ticks whose checkTokenExpiry has resolved: one with needsRefresh
\* true, one with needsRefresh false
C33_Witness ==
  \E t, u \in Tasks("tick.refresh") : t.due /\ ~u.due

(***************************************************************************)
(* components/ChatInterface.js: the chat component and its requests.       *)
(* A message of the list is kept as its role; the text of the textarea is  *)
(* empty, blank or a text.                                                 *)
(***************************************************************************)
MaxMessages == 4       \* messages a list grows to by sending
MaxChatRequests == 2   \* history and clear requests waiting at a time

Inputs == {"", " ", "hi"}
\* String.prototype.trim
Trim(s) == IF s = " " THEN "" ELSE s

SessionNotReady == "Session is not ready. Please sign in again."
SendFailed == "Failed to send message. Please try again."
NoPermission == "You do not have permission to clear chat history."
ClearFailed == "Could not clear chat history."

\* what GET /api/chat/history answers with: no data, or a list
Histories == {[t |-> "null", v |-> <<>>], [t |-> "array", v |-> <<>>],
              [t |-> "array", v |-> <<"user", "assistant">>]}
\* history || []
OrEmpty(history) == IF history.t = "array" THEN history.v ELSE <<>>

\* chatAPI.getChatHistory swallows every failure and returns []
GetChatHistory(outcome, data) ==
  IF outcome = "ok" THEN data ELSE [t |-> "array", v |-> <<>>]

\* the variables no handler of ChatInterface touches
shellFrame == <<shellVars, liveTimers, nextTimer, modalVars, envVars, obsVars,
                navItems, serverRoles>>
socketVars == <<isConnected, wsRef, sockets, nextSocket>>
storageVars == <<lsSessionId, lsAccessToken, reloadPending>>

ChatRequests == Tasks("chat.history") \cup Tasks("chat.clear")
ChatRequestCount ==
  LET Sum[S \in SUBSET ChatRequests] ==
        IF S = {} THEN 0
        ELSE LET t == CHOOSE x \in S : TRUE IN inflight[t] + Sum[S \ {t}]
  IN Sum[ChatRequests]

\* the response interceptor on the answer to a chat request
ChatIntercepted(outcome) ==
  /\ lsSessionId' = StoredAfter(outcome, lsSessionId)
  /\ lsAccessToken' = StoredAfter(outcome, lsAccessToken)
  /\ reloadPending' = ReloadAfter(outcome, reloadPending)

\* the effect on [sessionId]: the list is emptied without a session id,
\* else loadChatHistory runs up to its await
SessionEffect(sid) ==
  /\ messages' = IF sid = Null THEN <<>> ELSE messages
  /\ inflight' = IF sid = Null THEN inflight
                 ELSE inflight (+) One(Request("chat.history", sid, lsSessionId, lsAccessToken))

\* ChatInterface is mounted with the props sessionId and roles
ChatMount(sid, roles) ==
  /\ ~chatMounted
  /\ chatMounted' = TRUE
  /\ chatSessionId' = sid
  /\ chatRoles' = roles
  /\ SessionEffect(sid)
  /\ UNCHANGED <<inputMessage, isLoading, error, socketVars, storageVars, shellFrame>>

\* the parent renders ChatInterface with other props
ChatPropsChange(sid, roles) ==
  /\ chatMounted
  /\ <<sid, roles>> # <<chatSessionId, chatRoles>>
  /\ ChatRequestCount < MaxChatRequests
  /\ chatSessionId' = sid
  /\ chatRoles' = roles
  /\ IF sid # chatSessionId THEN SessionEffect(sid)
     ELSE UNCHANGED <<messages, inflight>>
  /\ UNCHANGED <<chatMounted, inputMessage, isLoading, error, socketVars, storageVars,
                 shellFrame>>

\* loadChatHistory after its await
HistoryResponse(t, outcome, data) ==
  /\ t \in Tasks("chat.history")
  /\ outcome \in Outcomes
  /\ data \in Histories
  /\ inflight' = inflight (-) One(t)
  /\ ChatIntercepted(outcome)
  /\ messages' = OrEmpty(GetChatHistory(outcome, data))
  /\ UNCHANGED <<chatMounted, chatSessionId, chatRoles, inputMessage, isLoading, error,
                 socketVars, shellFrame>>

\* onChange of the textarea, which is disabled while isLoading
TypeInput(text) ==
  /\ chatMounted
  /\ ~isLoading
  /\ text \in Inputs
  /\ text # inputMessage
  /\ inputMessage' = text
  /\ UNCHANGED <<chatMounted, chatSessionId, chatRoles, messages, isLoading, error,
                 socketVars, inflight, storageVars, shellFrame>>

\* sendMessage up to its await (ChatInterface.js 37-62)
SendMessage ==
  /\ chatMounted
  /\ ~(Trim(inputMessage) = "" \/ isLoading)
  /\ IF chatSessionId = Null
     THEN /\ error' = SessionNotReady
          /\ UNCHANGED <<messages, inputMessage, isLoading, inflight>>
     ELSE /\ Len(messages) + 2 <= MaxMessages
          /\ messages' = Append(messages, "user")
          /\ inputMessage' = ""
          /\ isLoading' = TRUE
          /\ error' = NoError
          /\ inflight' = inflight (+)
               One(Request("chat.send", chatSessionId, lsSessionId, lsAccessToken))
  /\ UNCHANGED <<chatMounted, chatSessionId, chatRoles, socketVars, storageVars,
                 shellFrame>>

\* a sendMessage without its finally block
SendResponseNoFinally(t, outcome) ==
  /\ t \in Tasks("chat.send")
  /\ outcome \in Outcomes
  /\ inflight' = inflight (-) One(t)
  /\ ChatIntercepted(outcome)
  /\ IF outcome = "ok"
     THEN messages' = Append(messages, "assistant") /\ isLoading' = FALSE /\ UNCHANGED error
     ELSE error' = SendFailed /\ UNCHANGED <<messages, isLoading>>
  /\ UNCHANGED <<chatMounted, chatSessionId, chatRoles, inputMessage, socketVars,
                 shellFrame>>

\* sendMessage after its await: try, catch and finally (ChatInterface.js 62-75)
SendResponse(t, outcome) ==
  /\ t \in Tasks("chat.send")
  /\ outcome \in Outcomes
  /\ inflight' = inflight (-) One(t)
  /\ ChatIntercepted(outcome)
  /\ IF outcome = "ok"
     THEN messages' = Append(messages, "assistant") /\ UNCHANGED error
     ELSE error' = SendFailed /\ UNCHANGED messages
  /\ isLoading' = FALSE
  /\ UNCHANGED <<chatMounted, chatSessionId, chatRoles, inputMessage, socketVars,
                 shellFrame>>

\* a clearChat that empties the list at once, whoever asks
ClearChatUngated ==
  /\ chatMounted
  /\ messages' = <<>>
  /\ error' = NoError
  /\ UNCHANGED <<chatMounted, chatSessionId, chatRoles, inputMessage, isLoading,
                 socketVars, inflight, storageVars, shellFrame>>

\* clearChat up to its await (ChatInterface.js 85-95)
ClearChat ==
  /\ chatMounted
  /\ chatSessionId # Null
  /\ IF "admin" \notin chatRoles
     THEN error' = NoPermission /\ UNCHANGED inflight
     ELSE /\ ChatRequestCount < MaxChatRequests
          /\ inflight' = inflight (+)
               One(Request("chat.clear", chatSessionId, lsSessionId, lsAccessToken))
          /\ UNCHANGED error
  /\ UNCHANGED <<chatMounted, chatSessionId, chatRoles, messages, inputMessage, isLoading,
                 socketVars, storageVars, shellFrame>>

\* clearChat after its await (ChatInterface.js 95-101)
ClearResponse(t, outcome) ==
  /\ t \in Tasks("chat.clear")
  /\ outcome \in Outcomes
  /\ inflight' = inflight (-) One(t)
  /\ ChatIntercepted(outcome)
  /\ IF outcome = "ok"
     THEN messages' = <<>> /\ error' = NoError
     ELSE error' = ClearFailed /\ UNCHANGED messages
  /\ UNCHANGED <<chatMounted, chatSessionId, chatRoles, inputMessage, isLoading,
                 socketVars, shellFrame>>

\* the Clear Chat button is rendered (ChatInterface.js 145-151)
ClearChatOffered == chatMounted /\ "admin" \in chatRoles

\* a click on the Clear Chat button
ClickClearChat == ClearChatOffered /\ ClearChat

\* AppShell authenticated as an admin on the chat page, before any
\* ChatInterface is mounted
OnChatPage ==
  /\ Rendered
  /\ navItems = NAVIGATION_ITEMS
  /\ isAuthenticated
  /\ path = "/chat"
  /\ "admin" \in UserRoles(sessionInfo)

ChatProps == {Null, 1} \X {{}, {"user"}, {"admin"}}

ChatNext ==
  \/ \E p \in ChatProps : ChatMount(p[1], p[2])
  \/ \E p \in ChatProps : ChatPropsChange(p[1], p[2])
  \/ \E t \in BagToSet(inflight), o \in Outcomes, d \in Histories : HistoryResponse(t, o, d)
  \/ \E text \in Inputs : TypeInput(text)
  \/ SendMessage
  \/ \E t \in BagToSet(inflight), o \in Outcomes : SendResponse(t, o)
  \/ ClickClearChat
  \/ \E t \in BagToSet(inflight), o \in Outcomes : ClearResponse(t, o)
  \/ InterceptorReload

ChatSpec == OnChatPage /\ [][ChatNext]_vars

\* the same with the event loop's guarantee that a chat request is answered
\* or fails
FairChatSpec ==
  /\ OnChatPage /\ [][ChatNext]_vars
  /\ WF_vars(\E t \in BagToSet(inflight), o \in Outcomes : SendResponse(t, o))

\* C34: in the REST ChatInterface an accepted sendMessage ends with
\* isLoading false whether its request succeeds or fails.  The step that
\* handles the answer (the page not being reloaded) sets isLoading to false;
\* when the request failed it shows the error of a failed send, leaves the
\* list as it is (the user's message stays, no assistant message is added),
\* and when it succeeded it appends the assistant's message.  While
\* isLoading is true a chat request is waiting for its answer, and with
\* requests answered isLoading is false at some later time.
C34_SendMessageEndsLoading ==
  /\ [][\A t \in Tasks("chat.send") :
          (Consumed(t) /\ ~PageReloaded) =>
            /\ isLoading /\ ~isLoading'
            /\ IF error' = SendFailed
               THEN messages' = messages
               ELSE messages' = Append(messages, "assistant") /\ error' = error
     ]_vars
  /\ [](isLoading => Tasks("chat.send") # {})
  /\ isLoading ~> ~isLoading

\* a send has failed: the user's message is the last of the list, the error
\* is shown and the input is enabled again
C34_Witness ==
  /\ chatMounted
  /\ error = SendFailed
  /\ ~isLoading
  /\ Len(messages) > 0
  /\ messages[Len(messages)] = "user"
  /\ Tasks("chat.send") = {}

\* ChatInterface with clearChat called whatever the roles are: the function
\* itself, not only through its button
ClearNext == ChatNext \/ ClearChat

ClearSpec == OnChatPage /\ [][ClearNext]_vars

\* C37: clearChat is role-gated and leaves the state as it is on denial and
\* on failure.  A clear request is sent only with a sessionId and the admin
\* role, and sending it changes neither the list nor the error; the
\* permission error appears only where the admin role is missing, with no
\* request sent and the list unchanged; the answer to a clear request (the
\* page not being reloaded) either empties the list and the error, or
\* leaves the list and sets the error of a failed clear; and a list with
\* messages is emptied under an unchanged sessionId only by the answer to a
\* request (or by the reload of the page).
C37_ClearChatIsGated ==
  [][/\ \A t \in BagToSet(inflight') :
          (t.k = "chat.clear" /\ Added(t)) =>
            /\ chatSessionId # Null
            /\ t.sid = chatSessionId
            /\ "admin" \in chatRoles
            /\ messages' = messages
            /\ error' = error
     /\ (error' = NoPermission /\ error # NoPermission) =>
          /\ chatSessionId # Null
          /\ "admin" \notin chatRoles
          /\ inflight' = inflight
          /\ messages' = messages
     /\ \A t \in Tasks("chat.clear") :
          (Consumed(t) /\ ~PageReloaded) =>
            \/ messages' = <<>> /\ error' = NoError
            \/ messages' = messages /\ error' = ClearFailed
     /\ (/\ messages # <<>>
         /\ messages' = <<>>
         /\ chatSessionId' = chatSessionId
         /\ ~PageReloaded) =>
          \E t \in Tasks("chat.clear") \cup Tasks("chat.history") : Consumed(t)
    ]_vars

\* clearChat was denied to a user without the admin role: the permission
\* error is shown, the list still has its messages and no request is waiting
C37_Witness ==
  /\ chatMounted
  /\ chatSessionId # Null
  /\ "admin" \notin chatRoles
  /\ error = NoPermission
  /\ messages # <<>>
  /\ Tasks("chat.clear") = {}

(***************************************************************************)
(* The chat route: AppShell, ChatPage, ChatInterface.                      *)
(***************************************************************************)

\* the props AppShell renders the page of a route with (App.js 375-379)
PageComponentProps == [roles |-> UserRoles(sessionInfo), sessionId |-> sessionId]

\* ChatPage takes sessionId from its props and renders ChatInterface with
\* that prop alone (navigation.js 38, 48)
ChatPage(props) == [sessionId |-> props.sessionId]

\* ChatInterface = ({ sessionId, roles = [] }): a missing roles prop is []
ChatInterfaceProps(given) ==
  [sessionId |-> given.sessionId,
   roles |-> IF "roles" \in DOMAIN given THEN given.roles ELSE {}]

\* the route of the chat item is among those AppShell renders
ChatRouteShown ==
  LET items == AvailableNavItems(isAuthenticated, UserRoles(sessionInfo))
  IN isAuthenticated /\ \E i \in 1..Len(items) : items[i].path = "/chat"

\* the router renders the chat route: ChatPage mounts ChatInterface
RenderChatPage ==
  /\ ChatRouteShown
  /\ path = "/chat"
  /\ LET given == ChatInterfaceProps(ChatPage(PageComponentProps))
     IN ChatMount(given.sessionId, given.roles)

\* the chat page of the app.  The handlers of the Clear Chat button are not
\* among the steps: under this specification the button is never rendered.
PageNext ==
  \/ RenderChatPage
  \/ \E t \in BagToSet(inflight), o \in Outcomes, d \in Histories : HistoryResponse(t, o, d)
  \/ \E text \in Inputs : TypeInput(text)
  \/ SendMessage
  \/ \E t \in BagToSet(inflight), o \in Outcomes : SendResponse(t, o)
  \/ InterceptorReload

PageSpec == OnChatPage /\ [][PageNext]_vars

\* C38: on the chat page of a user whose session roles include admin, the
\* roles ChatInterface has are the roles AppShell holds, so the Clear Chat
\* button is rendered and clearChat is permitted
C38_AdminCanClearFromChatPage ==
  (chatMounted /\ isAuthenticated /\ "admin" \in UserRoles(sessionInfo)) =>
    (chatRoles = UserRoles(sessionInfo) /\ ClearChatOffered)

(***************************************************************************)
(* The WebSocket variant of ChatInterface (src/unnamed/part_000).  A       *)
(* socket is a record: the session id of its URL, which is the sessionId   *)
(* of the closure that created it, its readyState, and the number of chat  *)
(* messages sent over it that the server has not answered.  The handlers   *)
(* of a socket and the reconnect timer of its onclose keep the closure     *)
(* they were created in; wsRef is the one ref of the component.  State     *)
(* setters of an unmounted component do nothing.                           *)
(***************************************************************************)
MaxSockets == 3   \* sockets a page creates

ConnectionError == "Connection error. Please refresh the page."
ServerError == "server error"

Socket(id, sid) == [id |-> id, sid |-> sid, readyState |-> "CONNECTING", pending |-> 0]
Live(s) == s.readyState \in {"CONNECTING", "OPEN"}

\* WebSocket.close(): nothing on a socket that is closing or closed
Close(s) == IF Live(s) THEN [s EXCEPT !.readyState = "CLOSING"] ELSE s

\* the cleanup of the effect on [sessionId] (part_000 23-27)
Cleanup(socks) == {IF s.id = wsRef THEN Close(s) ELSE s : s \in socks}

\* connectWebSocket of the closure with session id sid (part_000 34-36)
ConnectWebSocket(socks, sid) ==
  /\ nextSocket <= MaxSockets
  /\ sockets' = socks \cup {Socket(nextSocket, sid)}
  /\ wsRef' = nextSocket
  /\ nextSocket' = nextSocket + 1

\* loadChatHistory up to its await (part_000 85-87)
LoadChatHistory(sid) ==
  inflight' = inflight (+) One(Request("chat.history", sid, lsSessionId, lsAccessToken))

\* the component is mounted on a fresh page: the effect connects and loads
WsMount(sid) ==
  /\ ~chatMounted
  /\ sockets = {}
  /\ chatMounted' = TRUE
  /\ chatSessionId' = sid
  /\ ConnectWebSocket(sockets, sid)
  /\ LoadChatHistory(sid)
  /\ UNCHANGED <<chatRoles, messages, inputMessage, isLoading, error, isConnected,
                 storageVars, shellFrame>>

\* the parent renders the component with another sessionId: the cleanup of
\* the old effect, then the effect again
WsSessionChange(sid) ==
  /\ chatMounted
  /\ sid # chatSessionId
  /\ ChatRequestCount < MaxChatRequests
  /\ chatSessionId' = sid
  /\ ConnectWebSocket(Cleanup(sockets), sid)
  /\ LoadChatHistory(sid)
  /\ UNCHANGED <<chatMounted, chatRoles, messages, inputMessage, isLoading, error,
                 isConnected, storageVars, shellFrame>>

\* the component is unmounted: the cleanup runs and the state is gone
WsUnmount ==
  /\ chatMounted
  /\ chatMounted' = FALSE
  /\ chatSessionId' = Null
  /\ sockets' = Cleanup(sockets)
  /\ messages' = <<>>
  /\ inputMessage' = ""
  /\ isLoading' = FALSE
  /\ error' = NoError
  /\ isConnected' = FALSE
  /\ UNCHANGED <<chatRoles, wsRef, nextSocket, inflight, storageVars, shellFrame>>

\* loadChatHistory after its await (part_000 87-88)
WsHistoryResponse(t, outcome, data) ==
  /\ t \in Tasks("chat.history")
  /\ outcome \in Outcomes
  /\ data \in Histories
  /\ inflight' = inflight (-) One(t)
  /\ ChatIntercepted(outcome)
  /\ messages' = IF chatMounted THEN OrEmpty(GetChatHistory(outcome, data)) ELSE messages
  /\ UNCHANGED <<chatMounted, chatSessionId, chatRoles, inputMessage, isLoading, error,
                 socketVars, shellFrame>>

\* the connection of a socket is established: onopen (part_000 38-42)
SocketOpen(s) ==
  /\ s \in sockets
  /\ s.readyState = "CONNECTING"
  /\ sockets' = (sockets \ {s}) \cup {[s EXCEPT !.readyState = "OPEN"]}
  /\ isConnected' = IF chatMounted THEN TRUE ELSE isConnected
  /\ error' = IF chatMounted THEN NoError ELSE error
  /\ UNCHANGED <<chatMounted, chatSessionId, chatRoles, messages, inputMessage, isLoading,
                 wsRef, nextSocket, inflight, storageVars, shellFrame>>

\* the server answers a chat message with a response or an error message:
\* onmessage (part_000 44-64)
SocketMessage(s, type) ==
  /\ s \in sockets
  /\ s.readyState = "OPEN"
  /\ s.pending > 0
  /\ type \in {"response", "error"}
  /\ sockets' = (sockets \ {s}) \cup {[s EXCEPT !.pending = @ - 1]}
  /\ IF ~chatMounted THEN UNCHANGED <<messages, error, isLoading>>
     ELSE /\ messages' = IF type = "response" THEN Append(messages, "assistant")
                         ELSE messages
          /\ error' = IF type = "error" THEN ServerError ELSE error
          /\ isLoading' = FALSE
  /\ UNCHANGED <<chatMounted, chatSessionId, chatRoles, inputMessage, isConnected,
                 wsRef, nextSocket, inflight, storageVars, shellFrame>>

\* the connection of a socket fails: onerror (part_000 66-70); the close
\* event follows
SocketError(s) ==
  /\ s \in sockets
  /\ Live(s)
  /\ sockets' = (sockets \ {s}) \cup {[s EXCEPT !.readyState = "CLOSING"]}
  /\ error' = IF chatMounted THEN ConnectionError ELSE error
  /\ isConnected' = IF chatMounted THEN FALSE ELSE isConnected
  /\ UNCHANGED <<chatMounted, chatSessionId, chatRoles, messages, inputMessage, isLoading,
                 wsRef, nextSocket, inflight, storageVars, shellFrame>>

\* a socket is closed, by the server or after close() or a failure: onclose
\* sets the timer of the reconnect (part_000 72-82)
SocketClose(s) ==
  /\ s \in sockets
  /\ s.readyState \in {"OPEN", "CLOSING"}
  /\ sockets' = (sockets \ {s}) \cup {[s EXCEPT !.readyState = "CLOSED"]}
  /\ isConnected' = IF chatMounted THEN FALSE ELSE isConnected
  /\ inflight' = inflight (+) One(Task("ws.reconnect", s.sid))
  /\ UNCHANGED <<chatMounted, chatSessionId, chatRoles, messages, inputMessage, isLoading,
                 error, wsRef, nextSocket, storageVars, shellFrame>>

\* the timer of a reconnect fires after 3 seconds (part_000 77-81)
ReconnectTimerFire(t) ==
  /\ t \in Tasks("ws.reconnect")
  /\ inflight' = inflight (-) One(t)
  /\ IF t.sid # Null THEN ConnectWebSocket(sockets, t.sid)
     ELSE UNCHANGED <<sockets, wsRef, nextSocket>>
  /\ UNCHANGED <<chatMounted, chatSessionId, chatRoles, messages, inputMessage, isLoading,
                 error, isConnected, storageVars, shellFrame>>

\* isConnected && wsRef.current?.readyState === WebSocket.OPEN
CanSendOverSocket ==
  /\ isConnected
  /\ wsRef # Null
  /\ \E s \in sockets : s.id = wsRef /\ s.readyState = "OPEN"

\* sendMessage up to its send or its await (part_000 102-127)
WsSendMessage ==
  /\ chatMounted
  /\ ~(Trim(inputMessage) = "" \/ isLoading)
  /\ Len(messages) + 2 <= MaxMessages
  /\ messages' = Append(messages, "user")
  /\ inputMessage' = ""
  /\ isLoading' = TRUE
  /\ error' = NoError
  /\ IF CanSendOverSocket
     THEN /\ sockets' = {IF s.id = wsRef THEN [s EXCEPT !.pending = @ + 1] ELSE s :
                           s \in sockets}
          /\ UNCHANGED inflight
     ELSE /\ inflight' = inflight (+)
               One(Request("chat.send", chatSessionId, lsSessionId, lsAccessToken))
          /\ UNCHANGED sockets
  /\ UNCHANGED <<chatMounted, chatSessionId, chatRoles, isConnected, wsRef, nextSocket,
                 storageVars, shellFrame>>

\* sendMessage after the await of its REST fallback (part_000 127-143)
WsRestResponse(t, outcome) ==
  /\ t \in Tasks("chat.send")
  /\ outcome \in Outcomes
  /\ inflight' = inflight (-) One(t)
  /\ ChatIntercepted(outcome)
  /\ IF ~chatMounted THEN UNCHANGED <<messages, error, isLoading>>
     ELSE /\ messages' = IF outcome = "ok" THEN Append(messages, "assistant") ELSE messages
          /\ error' = IF outcome = "ok" THEN error ELSE SendFailed
          /\ isLoading' = FALSE
  /\ UNCHANGED <<chatMounted, chatSessionId, chatRoles, inputMessage, socketVars,
                 shellFrame>>

\* clearChat (part_000 153-156)
WsClearChat ==
  /\ chatMounted
  /\ messages' = <<>>
  /\ error' = NoError
  /\ UNCHANGED <<chatMounted, chatSessionId, chatRoles, inputMessage, isLoading,
                 socketVars, inflight, storageVars, shellFrame>>

WsNext ==
  \/ \E sid \in Sids : WsMount(sid)
  \/ \E sid \in Sids : WsSessionChange(sid)
  \/ WsUnmount
  \/ \E t \in BagToSet(inflight), o \in Outcomes, d \in Histories : WsHistoryResponse(t, o, d)
  \/ \E s \in sockets : SocketOpen(s)
  \/ \E s \in sockets, type \in {"response", "error"} : SocketMessage(s, type)
  \/ \E s \in sockets : SocketError(s)
  \/ \E s \in sockets : SocketClose(s)
  \/ \E t \in BagToSet(inflight) : ReconnectTimerFire(t)
  \/ \E text \in Inputs : TypeInput(text)
  \/ WsSendMessage
  \/ \E t \in BagToSet(inflight), o \in Outcomes : WsRestResponse(t, o)
  \/ WsClearChat
  \/ InterceptorReload

\* the chat page of an admin whose only role that is
WsInit == OnChatPage /\ UserRoles(sessionInfo) = {"admin"}

WsSpec == WsInit /\ [][WsNext]_vars

\* C35: in the WebSocket variant a message sent over the socket ends with
\* isLoading false.  While isLoading is true something that sets it back is
\* still to come: the REST request of the send is waiting for its answer, or
\* an open socket has a message of the component that the server has not
\* answered.  When that holds in every state the input is never left
\* disabled for good.
C35_SocketSendEndsLoading ==
  isLoading =>
    \/ Tasks("chat.send") # {}
    \/ \E s \in sockets : s.readyState = "OPEN" /\ s.pending > 0

\* C36: in the WebSocket variant the sockets follow the component.  Every
\* socket that is connecting or open belongs to the mounted component and
\* to its current sessionId, there is at most one of them, and every
\* reconnect that is scheduled is for the current sessionId of the mounted
\* component: after an unmount or a change of sessionId the socket of the
\* old session is closed and is not opened again.
C36_OneSocketOfCurrentSession ==
  /\ \A s \in sockets : Live(s) => (chatMounted /\ s.sid = chatSessionId)
  /\ Cardinality({s \in sockets : Live(s)}) <= 1
  /\ \A t \in Tasks("ws.reconnect") : chatMounted /\ t.sid = chatSessionId
====
